---------------------------- MODULE Spec2Model ----------------------------
(***************************************************************************)
(* Session-scoped retrieval store of the AI study assistant:               *)
(* app/services/rag_service.py (RAGService), with the chunker of           *)
(* app/services/text_processor.py and the embedding provider of            *)
(* app/services/embedding_service.py.                                      *)
(*                                                                         *)
(* Every RAGService method is a plain (non-async) function, so each call   *)
(* runs to completion on the event loop: one action per call.              *)
(***************************************************************************)
EXTENDS Integers, Sequences, FiniteSets, TLC

(***************************************************************************)
(* Bounds of the model.                                                    *)
(***************************************************************************)
\* number of uuid4 values drawn, i.e. of create_session calls
MaxIds == 2

\* number of ingest and ask requests of a run; they may all be in flight
\* (suspended at an await) at once
MaxReqs == 2

\* number of chunks a retrieval hands to the excerpt builder
MaxRetrieved == 4
\* number of calls of the getters of the services in a run
MaxCalls == 2
\* length of the texts chunk_text is checked on
MaxTextLen == 7
\* length of the raw texts and of the byte strings the extractors are
\* checked on
MaxRawLen == 4
MaxBytes == 3
\* connections of the chat layer and messages it saves
MaxSids == 2
MaxMessages == 2

(***************************************************************************)
(* Configuration read from app.core.config.settings.                       *)
(***************************************************************************)
RAG_CHUNK_SIZE == 4
RAG_CHUNK_OVERLAP == 1
RAG_TOP_K == 1

\* text[:5000] of create_session
FULL_TEXT_CHARS == 5000

\* len(extracted_text.strip()) < 100 of summarize_material
MIN_CONTENT_CHARS == 100

\* chunk[:200] and context_chunks[:3] of chat_with_material
EXCERPT_CHARS == 200
MAX_SOURCES == 3

\* first_line[:50] of extract_from_raw_text
TITLE_CHARS == 50

\* an Optional value is a sequence of at most one element
None == <<>>
Some(x) == <<x>>

(***************************************************************************)
(* Strings are sequences of one-character strings.                         *)
(***************************************************************************)
\* a slip: strip(" ") in place of strip()
Whitespace_SpacesOnly == {" "}

\* the characters str.strip() removes, of those the texts hold
Whitespace == {" ", "\n", "\t", "\r"}

Min(a, b) == IF a <= b THEN a ELSE b

\* s[:n]
Prefix(s, n) == SubSeq(s, 1, Min(n, Len(s)))

\* s[n:]  (n characters dropped)
Drop(s, n) == SubSeq(s, Min(n, Len(s)) + 1, Len(s))

RECURSIVE LStrip(_)
LStrip(s) ==
    IF s # <<>> /\ Head(s) \in Whitespace THEN LStrip(Tail(s)) ELSE s

RECURSIVE RStrip(_)
RStrip(s) ==
    IF s # <<>> /\ s[Len(s)] \in Whitespace
    THEN RStrip(SubSeq(s, 1, Len(s) - 1))
    ELSE s

\* str.strip()
Strip(s) == LStrip(RStrip(s))

\* text starts with sep at position 1
StartsWith(s, sep) ==
    /\ Len(sep) <= Len(s)
    /\ SubSeq(s, 1, Len(sep)) = sep

\* the positions of s at which sep occurs, sep non-empty
Matches(s, sep) ==
    { i \in 1..(Len(s) - Len(sep) + 1) : SubSeq(s, i, i + Len(sep) - 1) = sep }

\* re.search(re.escape(sep), s), sep non-empty
Contains(s, sep) == Matches(s, sep) # {}

\* the leftmost position of s at which sep occurs
FirstMatch(s, sep) ==
    CHOOSE i \in Matches(s, sep) : \A j \in Matches(s, sep) : i <= j

RECURSIVE SplitOn(_, _, _)
\* the pieces between the leftmost non-overlapping matches of sep
\* (re.split), cur being the start of the first piece
SplitOn(s, sep, cur) ==
    IF ~Contains(s, sep) THEN <<cur \o s>>
    ELSE LET i == FirstMatch(s, sep)
         IN  <<cur \o SubSeq(s, 1, i - 1)>>
               \o SplitOn(Drop(s, i - 1 + Len(sep)), sep, <<>>)

RECURSIVE NonEmpty(_)
\* [s for s in splits if s != ""]
NonEmpty(ss) ==
    IF ss = <<>> THEN <<>>
    ELSE IF Head(ss) = <<>> THEN NonEmpty(Tail(ss))
         ELSE <<Head(ss)>> \o NonEmpty(Tail(ss))

\* _split_text_with_regex with keep_separator: each separator is kept at
\* the start of the piece that follows it; "" splits into characters
SplitKeep(s, sep) ==
    IF sep = <<>>
    THEN [i \in 1..Len(s) |-> <<s[i]>>]
    ELSE LET p == SplitOn(s, sep, <<>>)
         IN  NonEmpty([i \in 1..Len(p) |-> IF i = 1 THEN p[1] ELSE sep \o p[i]])

RECURSIVE Concat(_)
\* "".join(docs)
Concat(ss) == IF ss = <<>> THEN <<>> ELSE Head(ss) \o Concat(Tail(ss))

RECURSIVE TotalLen(_)
TotalLen(ss) == IF ss = <<>> THEN 0 ELSE Len(Head(ss)) + TotalLen(Tail(ss))

\* _join_docs: joined and stripped, dropped when empty
JoinDocs(cur) ==
    LET t == Strip(Concat(cur)) IN IF t = <<>> THEN <<>> ELSE <<t>>

RECURSIVE PopFront(_, _)
\* the while loop of _merge_splits: pieces leave the front of the window
\* until it is within the overlap and the next piece fits
PopFront(cur, len) ==
    IF \/ TotalLen(cur) > RAG_CHUNK_OVERLAP
       \/ (TotalLen(cur) + len > RAG_CHUNK_SIZE /\ TotalLen(cur) > 0)
    THEN PopFront(Tail(cur), len)
    ELSE cur

RECURSIVE MergeSplits(_, _)
\* _merge_splits with the empty join separator (keep_separator)
MergeSplits(splits, cur) ==
    IF splits = <<>> THEN JoinDocs(cur)
    ELSE LET d == Head(splits)
         IN  IF TotalLen(cur) + Len(d) > RAG_CHUNK_SIZE /\ cur # <<>>
             THEN JoinDocs(cur)
                    \o MergeSplits(Tail(splits), Append(PopFront(cur, Len(d)), d))
             ELSE MergeSplits(Tail(splits), Append(cur, d))

\* a slip: the list of separators lacks the final "", the character cut
Separators_NoCharacterCut == << <<"\n", "\n">>, <<"\n">>, <<".", " ">>, <<" ">> >>

\* separators=["\n\n", "\n", ". ", " ", ""]
Separators == << <<"\n", "\n">>, <<"\n">>, <<".", " ">>, <<" ">>, <<>> >>

RECURSIVE PickSeparator(_, _)
\* index of the first separator, from index i on, that occurs in the text;
\* the empty separator always matches
PickSeparator(s, i) ==
    IF i >= Len(Separators) THEN Len(Separators)
    ELSE IF Contains(s, Separators[i]) THEN i
         ELSE PickSeparator(s, i + 1)

RECURSIVE SplitText(_, _)
RECURSIVE SplitPieces(_, _, _)
\* RecursiveCharacterTextSplitter._split_text, separators from index i on
SplitText(s, i) ==
    LET k == PickSeparator(s, i)
    IN  SplitPieces(SplitKeep(s, Separators[k]), k, <<>>)

\* its loop over the splits: short pieces are collected and merged, a
\* long one is split again with the separators that remain
SplitPieces(splits, k, good) ==
    IF splits = <<>>
    THEN IF good = <<>> THEN <<>> ELSE MergeSplits(good, <<>>)
    ELSE LET p == Head(splits)
         IN  IF Len(p) < RAG_CHUNK_SIZE
             THEN SplitPieces(Tail(splits), k, Append(good, p))
             ELSE (IF good = <<>> THEN <<>> ELSE MergeSplits(good, <<>>))
                    \o (IF k >= Len(Separators) THEN <<p>> ELSE SplitText(p, k + 1))
                    \o SplitPieces(Tail(splits), k, <<>>)

RECURSIVE StripAll(_)
\* [chunk.strip() for chunk in chunks if chunk.strip()]
StripAll(cs) ==
    IF cs = <<>> THEN <<>>
    ELSE IF Strip(Head(cs)) = <<>> THEN StripAll(Tail(cs))
         ELSE <<Strip(Head(cs))>> \o StripAll(Tail(cs))

\* TextProcessor.chunk_text
chunk_text(text) ==
    IF text = <<>> \/ Strip(text) = <<>> THEN <<>>
    ELSE StripAll(SplitText(text, 1))

\* TextProcessor.estimate_token_count
estimate_token_count(text) == Len(text) \div 4


(***************************************************************************)
(* ContentLoader (app/services/content_loader.py).                         *)
(***************************************************************************)
\* first and last position of the maximal run of character c around
\* position i of s (s[i] = c)
RunFirst(s, i, c) ==
    LET before == {j \in 1..i : s[j] # c}
    IN  IF before = {} THEN 1
        ELSE (CHOOSE j \in before : \A k \in before : k <= j) + 1

RunLast(s, i, c) ==
    LET after == {j \in i..Len(s) : s[j] # c}
    IN  IF after = {} THEN Len(s)
        ELSE (CHOOSE j \in after : \A k \in after : j <= k) - 1

\* re.sub of c{m,} by to, Len(to) <= m: every maximal run of at least m
\* characters c becomes to, i.e. keeps its first Len(to) positions
ReplaceRuns(s, c, m, to) ==
    LET pos(i) == i - RunFirst(s, i, c) + 1
        long(i) == RunLast(s, i, c) - RunFirst(s, i, c) + 1 >= m
        keep(i) == s[i] # c \/ ~long(i) \/ pos(i) <= Len(to)
        kept == SelectSeq([i \in 1..Len(s) |-> i], keep)
    IN  [j \in 1..Len(kept) |->
            IF s[kept[j]] = c /\ long(kept[j]) THEN to[pos(kept[j])] ELSE s[kept[j]]]

\* the characters that are not str.isprintable(), "\n" and "\r" apart
NonPrintable == {"\t", "\f", "U+0081"}

IsKept(c) == c \notin NonPrintable

\* ContentLoader._clean_text
clean_text(text) ==
    LET t1 == ReplaceRuns(text, "\n", 3, <<"\n", "\n">>)
        t2 == ReplaceRuns(t1, " ", 2, <<" ">>)
        t3 == ReplaceRuns(t2, "\t", 1, <<" ">>)
    IN  Strip(SelectSeq(t3, IsKept))

TextDocument ==
    <<"T", "e", "x", "t", " ", "D", "o", "c", "u", "m", "e", "n", "t">>

\* a str or Optional[str] that Python takes as true
Truthy(o) == o # None /\ o[1] # <<>>

\* ContentLoader.extract_from_raw_text
extract_from_raw_text(text, title) ==
    LET cleaned_text == clean_text(text)
        first_line == IF cleaned_text # <<>>
                      THEN SplitOn(cleaned_text, <<"\n">>, <<>>)[1]
                      ELSE TextDocument
    IN  [ text |-> cleaned_text,
          title |-> IF Truthy(title) THEN title[1]
                    ELSE IF Len(first_line) > TITLE_CHARS
                         THEN Prefix(first_line, TITLE_CHARS) \o <<".", ".", ".">>
                         ELSE first_line ]

\* ContentLoader.get_word_count: len(text.split())
get_word_count(text) ==
    Cardinality({ i \in 1..Len(text) :
                    /\ text[i] \notin Whitespace
                    /\ (i = 1 \/ text[i - 1] \in Whitespace) })

\* the string of n characters c
Rep(c, n) == [i \in 1..n |-> c]

(***************************************************************************)
(* Inputs of the router.                                                   *)
(***************************************************************************)
\* n words w separated by sep
Words(w, sep, n) ==
    [i \in 1..(n * Len(w) + (n - 1) * Len(sep)) |->
        LET p == ((i - 1) % (Len(w) + Len(sep))) + 1
        IN  IF p <= Len(w) THEN w[p] ELSE sep[p - Len(w)]]

\* raw text a caller submits: too short; 99 characters once cleaned,
\* though longer before; 100 and 108 characters once cleaned
ContentShort == <<"a", "b">>
ContentPadded ==
    <<" ", "\t", " ">> \o Words(<<"a", "b", "c">>, <<" ">>, 24)
      \o <<" ", " ", "d", "e", "f", "\n">>
ContentLong ==
    <<" ">> \o Words(<<"a", "b", "c">>, <<" ", " ">>, 24)
      \o <<" ", "a", "b", "c", "d", "\t">>
ContentLonger ==
    Words(<<"a", "b", "c">>, <<" ">>, 14) \o <<"\n", "\n", "\n">>
      \o Words(<<"d", "e", "f">>, <<" ">>, 13)

UrlOk == <<"h", "t", "t", "p", ":", "/", "/", "x">>
UrlBad == <<"x">>

\* a request of summarize_material: the caller's role, the form fields
\* and the upload
IngestRequest(student, source_type, content, title, file) ==
    [ student |-> student, source_type |-> source_type, content |-> content,
      title |-> title, file |-> file ]

\* the requests with raw text
TextRequests ==
    { IngestRequest(TRUE, "text", Some(c), None, None) :
        c \in {ContentShort, ContentPadded, ContentLong, ContentLonger} }
      \cup { IngestRequest(TRUE, "text", Some(ContentLong), Some(<<"T">>), None),
             IngestRequest(FALSE, "text", Some(ContentLong), None, None) }

IngestRequests ==
    TextRequests
      \cup { IngestRequest(TRUE, "text", c, None, None) : c \in {None, Some(<<>>)} }
      \cup { IngestRequest(TRUE, "url", c, None, None) :
               c \in {None, Some(UrlBad), Some(UrlOk)} }
      \cup { IngestRequest(TRUE, st, None, None, f) :
               st \in {"pdf", "txt"}, f \in {None, Some(<<"f">>)} }

\* extract_from_raw_text tabulated over the requests with raw text
RawText ==
    [rq \in TextRequests |-> extract_from_raw_text(rq.content[1], rq.title)]

\* what the extractors of url, pdf and txt sources may hand back: a text
\* below the minimum length or one above it, with a title
Extractions ==
    { [ok |-> TRUE, text |-> clean_text(ContentShort), title |-> <<"P">>],
      [ok |-> TRUE, text |-> clean_text(ContentLonger), title |-> <<"P">>] }

\* the texts create_session is called with by the router
ApiTexts ==
    {RawText[rq].text : rq \in TextRequests} \cup {e.text : e \in Extractions}

(***************************************************************************)
(* Inputs.                                                                 *)
(***************************************************************************)
TextBlank == <<" ", " ">>
TextOne == <<"a", "b">>
TextTwo == <<"a", "b", " ", "c", "d">>

\* the texts callers pass to create_session: one that yields no chunk and
\* texts of one and of two chunks
Texts == {TextBlank, TextOne, TextTwo}

\* chunk_text tabulated over the texts, so that it is computed once
Chunks == [t \in Texts \cup ApiTexts |-> chunk_text(t)]

\* the calls of create_session: text, title and source_type
\* (a SourceType value passed on by the router)
Requests ==
    { [text |-> TextBlank, title |-> "Blank", source_type |-> "text"],
      [text |-> TextOne, title |-> "Notes", source_type |-> "text"],
      [text |-> TextTwo, title |-> "Paper", source_type |-> "pdf"] }

\* session ids a caller may pass: those uuid4 can draw within the bound
Ids == 1..MaxIds

\* top_k of query: omitted, zero, and integers below and above the number
\* of chunks of a session
TopKs == {None, Some(0), Some(1), Some(3)}

\* embedding vectors, in place of the 384 floats of random.random(); the
\* components are non-negative and not all zero
Vectors == {<<1, 0>>, <<1, 1>>}

(***************************************************************************)
(* State.                                                                  *)
(***************************************************************************)
VARIABLES
    sessions,      \* RAGService._sessions: session id -> metadata
    collections,   \* the collections of the ChromaDB client: name -> entries
    configured,    \* EmbeddingService._configured
    drawn,         \* number of uuid4 values drawn so far
    issued,        \* history: the ids create_session has returned, in order
    ingested,      \* history: returned id -> the text it was created from
    last,          \* history: the call that ran last and its outcome
    reqs,          \* the requests of the router suspended at an await
    known,         \* the session ids the router has returned to callers
    out,           \* history: the response the router returned last
    fields,        \* the attributes the settings object has
    credential,    \* whether the environment holds a value for GOOGLE_API_KEY
    _rag_service,  \* the module-level _rag_service of rag_service.py
    _summary_service, \* the module-level _summary_service of summary_service.py
    calls,         \* the calls of get_rag_service and get_summary_service
    instances,     \* the service objects constructed so far
    connected_users, \* socketio_manager.connected_users: sid -> user info
    sio_rooms,     \* the rooms of the Socket.IO server: classroom -> sids
    enrolled,      \* the rows of student_classroom: <<student, classroom>>
    messages,      \* the rows of ChatMessage, in the order they were saved
    handlers,      \* the event handlers of the chat suspended at an await
    delivered      \* history: the message_received events and who got them

vars == <<sessions, collections, configured, drawn, issued, ingested, last,
          reqs, known, out, fields, credential, _rag_service, _summary_service,
          calls, instances, connected_users, sio_rooms, enrolled, messages,
          handlers, delivered>>

\* the state of the start-up and of the getters of the services
boot == <<fields, credential, _rag_service, _summary_service, calls, instances>>

\* the state of the real-time chat
chat == <<connected_users, sio_rooms, enrolled, messages, handlers, delivered>>

\* what the specifications of the RAG service and its router leave alone
aside == <<boot, chat>>

\* the core of the RAG service
core == <<sessions, collections, configured, drawn, issued, ingested, last>>

\* the state of the router
api == <<reqs, known, out>>

\* f"session_{session_id.replace('-', '_')}"
collection_name(session_id) == <<"session", session_id>>

\* a dict or the client's collections without key k
Without(f, k) == [x \in DOMAIN f \ {k} |-> f[x]]

\* history: the registry and the collections as a call that changes
\* session_id finds them, its own entries left out
Before(session_id) ==
    [ sessions |-> Without(sessions, session_id),
      collections |-> Without(collections, collection_name(session_id)) ]

\* a slip: the id derived from the number of registered sessions
uuid4_FromRegistrySize == Cardinality(DOMAIN sessions) + 1

\* str(uuid.uuid4()): a value that was never drawn before (a collision of
\* two random 122-bit values is left out of the model)
uuid4 == drawn + 1

Dot(u, v) == u[1] * v[1] + u[2] * v[2]

\* cosine distance ("hnsw:space": "cosine") is 1 - cos; with non-negative
\* components cos >= 0, so the distance is kept as cos^2 = num / den and
\* a smaller distance is a larger cos^2
distance(u, v) == [num |-> Dot(u, v) * Dot(u, v), den |-> Dot(u, u) * Dot(v, v)]

\* d1 <= d2 as distances
DistLeq(d1, d2) == d1.num * d2.den >= d2.num * d1.den

\* collection.add(ids=[f"chunk_{i}"], embeddings, documents, metadatas)
\* for enumerate index i = k - 1
Entry(k, chunk, embedding, source_type) ==
    [ id |-> <<"chunk", k - 1>>,
      embedding |-> embedding,
      document |-> chunk,
      metadata |-> [chunk_index |-> k - 1, source |-> source_type] ]

\* a slip: chunk_count taken from the text instead of the chunks
Metadata_CountsChars(session_id, text, title, source_type, chunks) ==
    [ collection_name |-> collection_name(session_id),
      title |-> title,
      source_type |-> source_type,
      chunk_count |-> Len(text),
      word_count |-> (estimate_token_count(text) * 4) \div 5,
      full_text |-> Prefix(text, FULL_TEXT_CHARS) ]

\* the metadata create_session registers
Metadata(session_id, text, title, source_type, chunks) ==
    [ collection_name |-> collection_name(session_id),
      title |-> title,
      source_type |-> source_type,
      chunk_count |-> Len(chunks),
      word_count |-> (estimate_token_count(text) * 4) \div 5,
      full_text |-> Prefix(text, FULL_TEXT_CHARS) ]

\* the start-up and the chat are not part of the specifications of the RAG
\* service: their state is kept at a fixed value there
BootIdle ==
    /\ fields = {}
    /\ credential = FALSE
    /\ _rag_service = <<>>
    /\ _summary_service = <<>>
    /\ calls = <<>>
    /\ instances = <<>>

ChatIdle ==
    /\ connected_users = <<>>
    /\ sio_rooms = <<>>
    /\ enrolled = {}
    /\ messages = <<>>
    /\ handlers = <<>>
    /\ delivered = <<>>

AsideIdle == BootIdle /\ ChatIdle

Init ==
    /\ sessions = <<>>
    /\ collections = <<>>
    /\ configured \in BOOLEAN
    /\ drawn = 0
    /\ issued = <<>>
    /\ ingested = <<>>
    /\ last = [op |-> "init"]
    /\ reqs = [r \in 1..MaxReqs |-> [pc |-> "idle"]]
    /\ known = {}
    /\ out = [op |-> "none"]
    /\ AsideIdle

(***************************************************************************)
(* RAGService.create_session.  failAt = 0: every backend call succeeds;    *)
(* failAt = j: the j-th generate_embedding call raises (the except branch  *)
(* of EmbeddingService.generate_embedding).  embs are the vectors the      *)
(* calls that succeed return.                                              *)
(***************************************************************************)
\* number of chunks added before the loop of create_session ends or raises:
\* generate_embedding raises at once when the service is not configured
Added(chunks, failAt) ==
    IF ~configured THEN 0
    ELSE IF failAt = 0 THEN Len(chunks) ELSE failAt - 1

\* a slip: the embeddings requested as a batch first, the chunks added after
LoopEvents_Batch(chunks, failAt, k) ==
    LET n == Added(chunks, failAt)
    IN  [i \in 1..n |-> [call |-> "generate_embedding", chunk |-> i - 1, ok |-> TRUE]]
          \o (IF n < Len(chunks)
              THEN <<[call |-> "generate_embedding", chunk |-> n, ok |-> FALSE]>>
              ELSE [i \in 1..n |-> [call |-> "collection.add", chunk |-> i - 1, ok |-> TRUE]])

\* a call of the embedding service and how it ended
EmbedCall(call, chunk, ok) == [call |-> call, chunk |-> chunk, ok |-> ok]

\* collection.add of the chunk with enumerate index chunk
AddCall(chunk) == [call |-> "collection.add", chunk |-> chunk, ok |-> TRUE]

RECURSIVE LoopEvents(_, _, _)
\* the calls the loop of create_session makes from iteration k on, in
\* order: generate_embedding(chunk), then collection.add of that chunk;
\* the iteration whose generate_embedding raises ends the loop
LoopEvents(chunks, failAt, k) ==
    IF k > Len(chunks) THEN <<>>
    ELSE IF ~configured \/ failAt = k
    THEN <<EmbedCall("generate_embedding", k - 1, FALSE)>>
    ELSE <<EmbedCall("generate_embedding", k - 1, TRUE), AddCall(k - 1)>>
           \o LoopEvents(chunks, failAt, k + 1)

create_session(text, title, source_type, failAt, embs) ==
    \E chunks \in {Chunks[text]} :
    LET session_id == uuid4
        name == collection_name(session_id)
        added == Added(chunks, failAt)
        entries == [k \in 1..added |-> Entry(k, chunks[k], embs[k], source_type)]
        call == [op |-> "create_session", text |-> text, title |-> title,
                 source_type |-> source_type, sid |-> session_id,
                 before |-> Before(session_id),
                 events |-> IF name \in DOMAIN collections THEN <<>>
                            ELSE LoopEvents(chunks, failAt, 1)]
    IN
    /\ drawn < MaxIds
    /\ drawn' = drawn + 1
    /\ UNCHANGED configured
    /\ IF name \in DOMAIN collections
       THEN \* client.create_collection raises: the name is taken
            /\ last' = call @@ [ok |-> FALSE, err |-> "collection exists"]
            /\ UNCHANGED <<sessions, collections, issued, ingested>>
       ELSE IF chunks = <<>>
       THEN /\ collections' = (name :> <<>>) @@ collections
            /\ last' = call @@ [ok |-> FALSE, err |-> "no content"]
            /\ UNCHANGED <<sessions, issued, ingested>>
       ELSE IF ~configured
       THEN /\ collections' = (name :> <<>>) @@ collections
            /\ last' = call @@ [ok |-> FALSE, err |-> "not configured"]
            /\ UNCHANGED <<sessions, issued, ingested>>
       ELSE IF failAt # 0
       THEN /\ collections' = (name :> entries) @@ collections
            /\ last' = call @@ [ok |-> FALSE, err |-> "embedding failed"]
            /\ UNCHANGED <<sessions, issued, ingested>>
       ELSE /\ collections' = (name :> entries) @@ collections
            /\ sessions' = (session_id :>
                              Metadata(session_id, text, title, source_type, chunks))
                           @@ sessions
            /\ issued' = Append(issued, session_id)
            /\ ingested' = (session_id :> text) @@ ingested
            /\ last' = call @@ [ok |-> TRUE, ret |-> session_id]

CreateSession ==
    /\ \E rq \in Requests :
           \E failAt \in 0..Len(Chunks[rq.text]) :
               \E embs \in [1..Added(Chunks[rq.text], failAt) -> Vectors] :
                   create_session(rq.text, rq.title, rq.source_type, failAt, embs)
    /\ UNCHANGED api
    /\ UNCHANGED aside

(***************************************************************************)
(* RAGService.query.  top_k is None when the caller omits it.  qfail: the  *)
(* generate_query_embedding call raises; qvec: the vector it returns       *)
(* otherwise.                                                              *)
(***************************************************************************)
\* the rankings collection.query(query_embeddings=[q], n_results=n) may
\* return: n distinct entries, closest first, none closer left out; the
\* order among entries at equal distance is the index's choice
Rankings(coll, q, n) ==
    LET d(i) == distance(coll[i].embedding, q)
    IN  { r \in [1..n -> DOMAIN coll] :
            /\ \A i, j \in 1..n : i < j => r[i] # r[j] /\ DistLeq(d(r[i]), d(r[j]))
            /\ \A i \in 1..n : \A m \in DOMAIN coll :
                   (\A j \in 1..n : r[j] # m) => DistLeq(d(r[i]), d(m)) }

\* a slip: the hits put back into document order before they are returned
FormatResults_InChunkOrder(coll, q, r) ==
    LET s == CHOOSE t \in [DOMAIN r -> {r[i] : i \in DOMAIN r}] :
                 /\ \A i \in DOMAIN r : \E j \in DOMAIN r : t[j] = r[i]
                 /\ \A i, j \in DOMAIN r : i < j => t[i] <= t[j]
    IN  [i \in DOMAIN r |->
            [ text |-> coll[s[i]].document,
              distance |-> distance(coll[s[i]].embedding, q),
              metadata |-> coll[s[i]].metadata ]]

\* formatted_results: text, distance and metadata of each hit, in the
\* order of the ranking
FormatResults(coll, q, r) ==
    [i \in DOMAIN r |->
        [ text |-> coll[r[i]].document,
          distance |-> distance(coll[r[i]].embedding, q),
          metadata |-> coll[r[i]].metadata ]]

\* top_k or settings.RAG_TOP_K
EffectiveTopK(top_k) ==
    IF top_k = None \/ top_k = Some(0) THEN RAG_TOP_K ELSE top_k[1]

\* a slip: the collection looked up without regard to the session
SessionCollection_AnySession(reg, colls, session_id) ==
    colls[CHOOSE name \in DOMAIN colls : Len(colls[name]) > 0]

\* self.client.get_collection(self._sessions[session_id]["collection_name"]),
\* reg being the registry and colls the collections of the client
SessionCollection(reg, colls, session_id) == colls[reg[session_id].collection_name]

\* what query returns or raises, given the registry and the collections,
\* with the calls of the embedding service it made
QueryOutcomesIn(reg, colls, session_id, top_k, qfail, qvec) ==
    IF session_id \notin DOMAIN reg
    THEN {[ok |-> FALSE, err |-> "not found", events |-> <<>>]}
    ELSE IF reg[session_id].collection_name \notin DOMAIN colls
    THEN \* client.get_collection raises
         {[ok |-> FALSE, err |-> "no collection", events |-> <<>>]}
    ELSE IF ~configured
    THEN {[ok |-> FALSE, err |-> "not configured",
           events |-> <<EmbedCall("generate_query_embedding", 0, FALSE)>>]}
    ELSE IF qfail
    THEN {[ok |-> FALSE, err |-> "embedding failed",
           events |-> <<EmbedCall("generate_query_embedding", 0, FALSE)>>]}
    ELSE LET coll == SessionCollection(reg, colls, session_id)
             n == Min(EffectiveTopK(top_k), Len(coll))
         IN  { [ok |-> TRUE, q |-> qvec, ret |-> FormatResults(coll, qvec, r),
                events |-> <<EmbedCall("generate_query_embedding", 0, TRUE)>>] :
                   r \in Rankings(coll, qvec, n) }

\* what query may return or raise in the current state
QueryOutcomes(session_id, top_k, qfail, qvec) ==
    QueryOutcomesIn(sessions, collections, session_id, top_k, qfail, qvec)

\* the call as a whole, over what the embedding backend may do
query(session_id, top_k) ==
    /\ \E o \in UNION { QueryOutcomes(session_id, top_k, qfail, qvec) :
                            qfail \in BOOLEAN, qvec \in Vectors } :
           last' = [op |-> "query", sid |-> session_id, top_k |-> top_k] @@ o
    /\ UNCHANGED <<sessions, collections, configured, drawn, issued, ingested>>

Query ==
    /\ \E session_id \in Ids, top_k \in TopKs :
           query(session_id, top_k)
    /\ UNCHANGED api
    /\ UNCHANGED aside

(***************************************************************************)
(* RAGService.delete_session.  collFails: client.delete_collection raises  *)
(* and leaves the collection in place; the exception is swallowed.         *)
(***************************************************************************)
\* a slip: the metadata is left in the registry
delete_session_KeepsMetadata(session_id, collFails) ==
    LET call == [op |-> "delete_session", sid |-> session_id,
                 before |-> Before(session_id)]
    IN
    /\ UNCHANGED <<configured, drawn, issued, ingested>>
    /\ IF session_id \notin DOMAIN sessions
       THEN /\ last' = call @@ [ok |-> TRUE, ret |-> FALSE, raised |-> FALSE]
            /\ UNCHANGED <<sessions, collections>>
       ELSE /\ collections' =
                 IF collFails THEN collections
                 ELSE Without(collections, sessions[session_id].collection_name)
            /\ UNCHANGED sessions
            /\ last' = call @@ [ok |-> TRUE, ret |-> TRUE, raised |-> collFails]

\* a slip: no try/except around delete_collection, its exception ends the call
delete_session_Propagates(session_id, collFails) ==
    LET call == [op |-> "delete_session", sid |-> session_id,
                 before |-> Before(session_id)]
    IN
    /\ UNCHANGED <<configured, drawn, issued, ingested>>
    /\ IF session_id \notin DOMAIN sessions
       THEN /\ last' = call @@ [ok |-> TRUE, ret |-> FALSE, raised |-> FALSE]
            /\ UNCHANGED <<sessions, collections>>
       ELSE IF collFails
       THEN /\ last' = call @@ [ok |-> FALSE, ret |-> FALSE, raised |-> TRUE]
            /\ UNCHANGED <<sessions, collections>>
       ELSE /\ collections' =
                 Without(collections, sessions[session_id].collection_name)
            /\ sessions' = Without(sessions, session_id)
            /\ last' = call @@ [ok |-> TRUE, ret |-> TRUE, raised |-> FALSE]

\* a slip: client.reset() in place of delete_collection
delete_session_ResetsClient(session_id, collFails) ==
    LET call == [op |-> "delete_session", sid |-> session_id,
                 before |-> Before(session_id)]
    IN
    /\ UNCHANGED <<configured, drawn, issued, ingested>>
    /\ IF session_id \notin DOMAIN sessions
       THEN /\ last' = call @@ [ok |-> TRUE, ret |-> FALSE, raised |-> FALSE]
            /\ UNCHANGED <<sessions, collections>>
       ELSE /\ collections' = IF collFails THEN collections ELSE <<>>
            /\ sessions' = Without(sessions, session_id)
            /\ last' = call @@ [ok |-> TRUE, ret |-> TRUE, raised |-> collFails]

\* a slip: self._sessions.clear() in place of del self._sessions[session_id]
delete_session_ClearsRegistry(session_id, collFails) ==
    LET call == [op |-> "delete_session", sid |-> session_id,
                 before |-> Before(session_id)]
    IN
    /\ UNCHANGED <<configured, drawn, issued, ingested>>
    /\ IF session_id \notin DOMAIN sessions
       THEN /\ last' = call @@ [ok |-> TRUE, ret |-> FALSE, raised |-> FALSE]
            /\ UNCHANGED <<sessions, collections>>
       ELSE /\ collections' =
                 IF collFails THEN collections
                 ELSE Without(collections, sessions[session_id].collection_name)
            /\ sessions' = <<>>
            /\ last' = call @@ [ok |-> TRUE, ret |-> TRUE, raised |-> collFails]

delete_session(session_id, collFails) ==
    LET call == [op |-> "delete_session", sid |-> session_id,
                 before |-> Before(session_id)]
    IN
    /\ UNCHANGED <<configured, drawn, issued, ingested>>
    /\ IF session_id \notin DOMAIN sessions
       THEN /\ last' = call @@ [ok |-> TRUE, ret |-> FALSE, raised |-> FALSE]
            /\ UNCHANGED <<sessions, collections>>
       ELSE /\ collections' =
                 IF collFails THEN collections
                 ELSE Without(collections, sessions[session_id].collection_name)
            /\ sessions' = Without(sessions, session_id)
            /\ last' = call @@ [ok |-> TRUE, ret |-> TRUE, raised |-> collFails]

DeleteSession ==
    /\ \E session_id \in Ids :
           \E collFails \in (IF session_id \in DOMAIN sessions THEN BOOLEAN ELSE {FALSE}) :
               delete_session(session_id, collFails)
    /\ UNCHANGED api
    /\ UNCHANGED aside

(***************************************************************************)
(* The lookups, which change nothing.                                      *)
(***************************************************************************)
\* RAGService.get_session_info: self._sessions.get(session_id)
get_session_info(session_id) ==
    IF session_id \in DOMAIN sessions THEN Some(sessions[session_id]) ELSE None

\* RAGService.get_session_context: the cached text, "" for an unknown id
get_session_context(session_id) ==
    IF session_id \in DOMAIN sessions THEN sessions[session_id].full_text ELSE <<>>

\* RAGService.session_exists: session_id in self._sessions
session_exists(session_id) == session_id \in DOMAIN sessions

Next ==
    \/ CreateSession
    \/ Query
    \/ DeleteSession

Spec == Init /\ [][Next]_vars

(***************************************************************************)
(* The router (app/routers/ai.py).  The handlers are coroutines on one     *)
(* event loop: a handler runs without interruption up to an await that     *)
(* suspends it (the fetch or the read of the source, the generation        *)
(* backend), other requests run meanwhile, and it resumes when the awaited *)
(* call ends.  One action per such stretch.                                *)
(***************************************************************************)
Ellipsis == <<".", ".", ".">>

\* a slip: a chunk of exactly the excerpt length is cut as well
SourceExcerpts_CutsAtLimit(context_chunks) ==
    LET first == Prefix(context_chunks, MAX_SOURCES)
    IN  [i \in 1..Len(first) |->
            IF Len(first[i]) >= EXCERPT_CHARS
            THEN Prefix(first[i], EXCERPT_CHARS) \o Ellipsis
            ELSE first[i]]

\* [chunk[:200] + "..." if len(chunk) > 200 else chunk
\*  for chunk in context_chunks[:3]]
SourceExcerpts(context_chunks) ==
    LET first == Prefix(context_chunks, MAX_SOURCES)
    IN  [i \in 1..Len(first) |->
            IF Len(first[i]) > EXCERPT_CHARS
            THEN Prefix(first[i], EXCERPT_CHARS) \o Ellipsis
            ELSE first[i]]

Slots == 1..MaxReqs

\* a request that has not begun, and one that was answered
Idle == [pc |-> "idle"]
Done == [pc |-> "done"]

\* the session ids a caller can pass: one the router returned, or one that
\* names no session (0); uuid4 values cannot be guessed
CallerIds == known \cup {0}

\* a slip: the handler does not look at the credential
is_configured_Ignored == TRUE

\* SummaryService.is_configured: like EmbeddingService._configured it is
\* set at construction from settings.GOOGLE_API_KEY
is_configured == configured

\* the slot of a request that begins: the lowest that is idle
FreeSlot == CHOOSE r \in Slots : reqs[r] = Idle /\ \A q \in 1..(r - 1) : reqs[q] # Idle

\* a response of the router: the HTTP status, the detail of an
\* HTTPException or the body of a success, with the calls of the embedding
\* and generation backends the request made
Response(op, rq, status, detail, body, events) ==
    [ op |-> op, rq |-> rq, status |-> status, detail |-> detail,
      body |-> body, events |-> events ]

\* a call of the generation backend and how it ended
GenCall(call, ok) == [call |-> call, chunk |-> 0, ok |-> ok]

\* the embeddings the backend returns for the chunks of one ingest, and the
\* embeddings of questions
ApiEmbeddings(n) == [k \in 1..n |-> <<k, 1>>]
ApiQueryVectors == {<<1, 0>>}

\* the chunk at which the embedding backend fails in an ingest (0: none)
ApiFailAts(text) == {0, 2} \cap (0..Len(Chunks[text]))

\* a slip: the minimum is taken in words
content_too_short_CountsWords(extracted_text) ==
    extracted_text = <<>> \/ get_word_count(extracted_text) < MIN_CONTENT_CHARS

\* a slip: only an empty extraction is refused
content_too_short_OnlyEmpty(extracted_text) == extracted_text = <<>>

\* not extracted_text or len(extracted_text.strip()) < 100
content_too_short(extracted_text) ==
    extracted_text = <<>> \/ Len(Strip(extracted_text)) < MIN_CONTENT_CHARS

\* the request ends: the response goes out
Return(slot, resp) ==
    /\ out' = resp
    /\ reqs' = [reqs EXCEPT ![slot] = Done]

\* lines 116-134 of summarize_material: the title, the length check,
\* create_session and the call of generate_summary
summarize_tail(slot, rq, extracted_text, extracted_title) ==
    LET final_title == IF Truthy(rq.title) THEN rq.title[1] ELSE extracted_title
    IN  IF content_too_short(extracted_text)
        THEN /\ Return(slot, Response("ingest", rq, 400, "content too short", <<>>, <<>>))
             /\ UNCHANGED <<sessions, collections, configured, drawn, issued,
                            ingested, last, known>>
        ELSE \E failAt \in ApiFailAts(extracted_text) :
               /\ create_session(extracted_text, final_title, rq.source_type, failAt,
                                 ApiEmbeddings(Added(Chunks[extracted_text], failAt)))
               /\ UNCHANGED known
               /\ IF ~last'.ok
                  THEN \* ValueError of create_session
                       Return(slot, Response("ingest", rq, 400, last'.err, <<>>,
                                             last'.events))
                  ELSE IF ~is_configured
                  THEN \* ValueError of generate_summary
                       Return(slot, Response("ingest", rq, 400, "not configured", <<>>,
                                             last'.events))
                  ELSE /\ reqs' = [reqs EXCEPT ![slot] =
                                     [ pc |-> "summary", op |-> "ingest", rq |-> rq,
                                       text |-> extracted_text, title |-> final_title,
                                       sid |-> last'.ret, events |-> last'.events ]]
                       /\ UNCHANGED out

\* summarize_material up to its first await that suspends
IngestStart(rq) ==
    /\ \E r \in Slots : reqs[r] = Idle
    /\ LET slot == FreeSlot
           fail(status, detail) ==
               /\ Return(slot, Response("ingest", rq, status, detail, <<>>, <<>>))
               /\ UNCHANGED <<sessions, collections, configured, drawn, issued,
                              ingested, last, known>>
           suspend ==
               /\ reqs' = [reqs EXCEPT ![slot] =
                             [pc |-> "extract", op |-> "ingest", rq |-> rq]]
               /\ UNCHANGED <<sessions, collections, configured, drawn, issued,
                              ingested, last, known, out>>
       IN  IF ~rq.student THEN fail(403, "only for students")
           ELSE IF ~is_configured THEN fail(503, "AI service not configured")
           ELSE IF rq.source_type = "url"
           THEN IF ~Truthy(rq.content) THEN fail(400, "URL is required")
                ELSE IF ~StartsWith(rq.content[1], Prefix(UrlOk, 7))
                THEN \* ValueError of load_from_url
                     fail(400, "invalid URL")
                ELSE suspend
           ELSE IF rq.source_type = "text"
           THEN IF ~Truthy(rq.content) THEN fail(400, "text content is required")
                ELSE summarize_tail(slot, rq, RawText[rq].text, RawText[rq].title)
           ELSE \* pdf, txt
                IF rq.file = None THEN fail(400, "file is required")
                ELSE suspend

\* the source was fetched or read: the extractor fails (ValueError) or
\* hands back a text and a title, and the handler goes on
IngestExtracted(slot, ok, e) ==
    /\ reqs[slot].pc = "extract"
    /\ IF ~ok
       THEN /\ Return(slot, Response("ingest", reqs[slot].rq, 400, "extraction failed",
                                     <<>>, <<>>))
            /\ UNCHANGED <<sessions, collections, configured, drawn, issued,
                           ingested, last, known>>
       ELSE summarize_tail(slot, reqs[slot].rq, e.text, e.title)

\* a slip: ingest reads the session registered last instead of its own
SummarizedSession_Latest(rq) == get_session_info(issued[Len(issued)])

\* rag_service.get_session_info(session_id) at line 137
SummarizedSession(rq) == get_session_info(rq.sid)

\* a slip: a failed generation is requested once more
AfterSummaryFailure_Retries(rq, events) ==
    IF Len(events) < Len(rq.events) + 2
    THEN [kind |-> "again", events |-> events]
    ELSE [kind |-> "raise", events |-> events]

\* summary generation failed: generate_summary raises ValueError
AfterSummaryFailure(rq, events) == [kind |-> "raise", events |-> events]

\* generate_summary ended: lines 136-146 of summarize_material, or the
\* except branches
IngestSummary(slot, ok) ==
    /\ reqs[slot].pc = "summary"
    /\ UNCHANGED <<sessions, collections, configured, drawn, issued, ingested, last>>
    /\ LET rq == reqs[slot]
           events == Append(rq.events, GenCall("generate_summary", ok))
           session_info == SummarizedSession(rq)
           next == AfterSummaryFailure(rq, events)
       IN  IF ~ok
           THEN IF next.kind = "again"
                THEN /\ reqs' = [reqs EXCEPT ![slot].events = next.events]
                     /\ UNCHANGED <<known, out>>
                ELSE /\ Return(slot, Response("ingest", rq.rq, 400, "generation failed",
                                              <<>>, next.events))
                     /\ UNCHANGED known
           ELSE IF session_info = None
           THEN \* None.get: AttributeError, caught by except Exception
                /\ Return(slot, Response("ingest", rq.rq, 500, "failed to process",
                                         <<>>, events))
                /\ UNCHANGED known
           ELSE /\ Return(slot, Response("ingest", rq.rq, 200, "",
                                         [ session_id |-> rq.sid,
                                           source_type |-> rq.rq.source_type,
                                           title |-> rq.title,
                                           chunk_count |-> session_info[1].chunk_count,
                                           word_count |-> get_word_count(rq.text),
                                           text |-> rq.text ],
                                         events))
                /\ known' = known \cup {rq.sid}

\* a request of chat_with_material, get_session or delete_session
SessionRequest(student, session_id) == [student |-> student, session_id |-> session_id]

\* a slip: the handler leaves the check of the session to query
AskKnowsSession_Unchecked(session_id) == TRUE

\* rag_service.session_exists(request.session_id) at line 190
AskKnowsSession(session_id) == session_exists(session_id)

\* chat_with_material up to the await of generate_chat_response
AskStart(rq, qfail, qvec) ==
    /\ \E r \in Slots : reqs[r] = Idle
    /\ UNCHANGED <<sessions, collections, configured, drawn, issued, ingested, known>>
    /\ LET slot == FreeSlot
       IN  IF ~rq.student
           THEN /\ Return(slot, Response("ask", rq, 403, "only for students", <<>>, <<>>))
                /\ UNCHANGED last
           ELSE IF ~AskKnowsSession(rq.session_id)
           THEN /\ Return(slot, Response("ask", rq, 404, "session not found", <<>>, <<>>))
                /\ UNCHANGED last
           ELSE \E o \in QueryOutcomes(rq.session_id, None, qfail, qvec) :
                  /\ last' = [op |-> "query", sid |-> rq.session_id, top_k |-> None] @@ o
                  /\ IF ~o.ok
                     THEN \* ValueError of query, or the exception of the client
                          Return(slot, Response("ask", rq,
                                                IF o.err = "no collection" THEN 500 ELSE 400,
                                                o.err, <<>>, o.events))
                     ELSE IF o.ret = <<>>
                     THEN Return(slot, Response("ask", rq, 404, "no relevant content",
                                                <<>>, o.events))
                     ELSE IF ~is_configured
                     THEN \* ValueError of generate_chat_response
                          Return(slot, Response("ask", rq, 400, "not configured", <<>>,
                                                o.events))
                     ELSE /\ reqs' = [reqs EXCEPT ![slot] =
                                        [ pc |-> "answer", op |-> "ask", rq |-> rq,
                                          context_chunks |->
                                              [i \in 1..Len(o.ret) |-> o.ret[i].text],
                                          events |-> o.events ]]
                          /\ UNCHANGED out

\* generate_chat_response ended: lines 218-224, or the except branch
AskAnswer(slot, ok) ==
    /\ reqs[slot].pc = "answer"
    /\ UNCHANGED <<sessions, collections, configured, drawn, issued, ingested, last,
                   known>>
    /\ LET rq == reqs[slot]
           events == Append(rq.events, GenCall("generate_chat_response", ok))
       IN  IF ~ok
           THEN Return(slot, Response("ask", rq.rq, 400, "generation failed", <<>>, events))
           ELSE Return(slot, Response("ask", rq.rq, 200, "",
                                      [ sources |-> SourceExcerpts(rq.context_chunks),
                                        context_chunks |-> rq.context_chunks ],
                                      events))

\* get_session: it has no await
Describe(rq) ==
    /\ UNCHANGED <<sessions, collections, configured, drawn, issued, ingested, last,
                   known, reqs>>
    /\ LET session_info == get_session_info(rq.session_id)
       IN  out' = IF ~rq.student
                  THEN Response("describe", rq, 403, "only for students", <<>>, <<>>)
                  ELSE IF session_info = None
                  THEN Response("describe", rq, 404, "session not found", <<>>, <<>>)
                  ELSE Response("describe", rq, 200, "",
                                [ session_id |-> rq.session_id,
                                  title |-> session_info[1].title,
                                  source_type |-> session_info[1].source_type,
                                  chunk_count |-> session_info[1].chunk_count,
                                  word_count |-> session_info[1].word_count ],
                                <<>>)

\* delete_session of the router: it has no await
Forget(rq, collFails) ==
    /\ UNCHANGED <<known, reqs>>
    /\ IF ~rq.student
       THEN /\ out' = Response("forget", rq, 403, "only for students", <<>>, <<>>)
            /\ UNCHANGED <<sessions, collections, configured, drawn, issued,
                           ingested, last>>
       ELSE /\ delete_session(rq.session_id, collFails)
            /\ out' = IF last'.ret
                      THEN Response("forget", rq, 200, "", [success |-> TRUE], <<>>)
                      ELSE Response("forget", rq, 404, "session not found", <<>>, <<>>)

Ingest ==
    /\ \E rq \in IngestRequests : IngestStart(rq)
    /\ UNCHANGED aside

Extracted ==
    /\ \E slot \in Slots :
           \/ IngestExtracted(slot, FALSE, <<>>)
           \/ \E e \in Extractions : IngestExtracted(slot, TRUE, e)
    /\ UNCHANGED aside

Summarized ==
    /\ \E slot \in Slots, ok \in BOOLEAN : IngestSummary(slot, ok)
    /\ UNCHANGED aside

Ask ==
    /\ \E session_id \in CallerIds, student \in BOOLEAN :
           \E qfail \in BOOLEAN, qvec \in ApiQueryVectors :
               AskStart(SessionRequest(student, session_id), qfail, qvec)
    /\ UNCHANGED aside

Answered ==
    /\ \E slot \in Slots, ok \in BOOLEAN : AskAnswer(slot, ok)
    /\ UNCHANGED aside

DescribeSession ==
    /\ \E session_id \in CallerIds, student \in BOOLEAN :
           Describe(SessionRequest(student, session_id))
    /\ UNCHANGED aside

ForgetSession ==
    /\ \E session_id \in CallerIds, student \in BOOLEAN :
           Forget(SessionRequest(student, session_id), FALSE)
    /\ UNCHANGED aside

ApiNext ==
    \/ Ingest
    \/ Extracted
    \/ Summarized
    \/ Ask
    \/ Answered
    \/ DescribeSession
    \/ ForgetSession

ApiSpec == Init /\ [][ApiNext]_vars

(***************************************************************************)
(* The router with the maintenance call of the service: RAGService.        *)
(* cleanup_all_sessions runs between the steps of the requests.            *)
(***************************************************************************)
\* RAGService.cleanup_all_sessions: delete_session for every registered id
cleanup_all_sessions ==
    LET names == {sessions[s].collection_name : s \in DOMAIN sessions}
    IN  /\ sessions' = <<>>
        /\ collections' = [c \in DOMAIN collections \ names |-> collections[c]]
        /\ last' = [op |-> "cleanup_all_sessions", deleted |-> DOMAIN sessions]
        /\ UNCHANGED <<configured, drawn, issued, ingested>>

CleanupAll ==
    /\ cleanup_all_sessions
    /\ UNCHANGED <<api, aside>>

MaintNext ==
    \/ Ingest
    \/ Extracted
    \/ Summarized
    \/ Ask
    \/ Answered
    \/ DescribeSession
    \/ ForgetSession
    \/ CleanupAll

MaintSpec == Init /\ [][MaintNext]_vars

(***************************************************************************)
(* Start-up: the settings object, the constructors of the services and the *)
(* getters get_rag_service and get_summary_service.  The getters are plain *)
(* functions used as dependencies of the handlers (Depends), so their      *)
(* calls run on worker threads and interleave between the test of the      *)
(* global, the construction, the assignment and the return.                *)
(***************************************************************************)
\* the fields class Settings declares
SettingsFields ==
    {"APP_NAME", "DEBUG", "DATABASE_URL", "SECRET_KEY", "ALGORITHM",
     "ACCESS_TOKEN_EXPIRE_MINUTES", "CORS_ORIGINS"}

\* the attributes of settings the services of the study assistant read
AiFields ==
    {"GOOGLE_API_KEY", "GEMINI_MODEL", "RAG_CHUNK_SIZE", "RAG_CHUNK_OVERLAP",
     "RAG_TOP_K"}

\* reading settings.<name>: an attribute the object lacks raises
HasAttr(name) == name \in fields

\* the outcome of a constructor: the object, or the exception it raised
Built(kind, is_conf) ==
    [raised |-> "", obj |-> [kind |-> kind, _configured |-> is_conf]]
Raised(exc) == [raised |-> exc]

\* EmbeddingService.__init__ and _configure_api
EmbeddingService_init ==
    IF ~HasAttr("GOOGLE_API_KEY") THEN Raised("AttributeError")
    ELSE Built("EmbeddingService", credential)

\* SummaryService.__init__ and _configure_api: GEMINI_MODEL is read only
\* when the key is set
SummaryService_init ==
    IF ~HasAttr("GOOGLE_API_KEY") THEN Raised("AttributeError")
    ELSE IF credential /\ ~HasAttr("GEMINI_MODEL") THEN Raised("AttributeError")
    ELSE Built("SummaryService", credential)

\* RAGService.__init__: the ChromaDB client, EmbeddingService() and
\* TextProcessor(), which reads RAG_CHUNK_SIZE and RAG_CHUNK_OVERLAP
RAGService_init ==
    IF EmbeddingService_init.raised # "" THEN EmbeddingService_init
    ELSE IF ~HasAttr("RAG_CHUNK_SIZE") \/ ~HasAttr("RAG_CHUNK_OVERLAP")
    THEN Raised("AttributeError")
    ELSE Built("RAGService", EmbeddingService_init.obj._configured)

Getters == {"get_rag_service", "get_summary_service"}
Construct(getter) ==
    IF getter = "get_rag_service" THEN RAGService_init ELSE SummaryService_init

\* the global a getter works on
Global(getter) ==
    IF getter = "get_rag_service" THEN _rag_service ELSE _summary_service

SetGlobal(getter, value) ==
    IF getter = "get_rag_service"
    THEN _rag_service' = value /\ UNCHANGED _summary_service
    ELSE _summary_service' = value /\ UNCHANGED _rag_service

Callers == 1..MaxCalls

BootInit ==
    /\ sessions = <<>>
    /\ collections = <<>>
    /\ configured = FALSE
    /\ drawn = 0
    /\ issued = <<>>
    /\ ingested = <<>>
    /\ last = [op |-> "init"]
    /\ reqs = [r \in 1..MaxReqs |-> [pc |-> "idle"]]
    /\ known = {}
    /\ out = [op |-> "none"]
    /\ ChatIdle
    /\ fields \in {SettingsFields, SettingsFields \cup AiFields}
    /\ credential \in BOOLEAN
    /\ _rag_service = None
    /\ _summary_service = None
    /\ calls = [c \in Callers |-> [pc |-> "idle"]]
    /\ instances = <<>>

\* "if _rag_service is None:"
GetterTest(c, getter) ==
    /\ calls[c].pc = "idle"
    /\ calls' = [calls EXCEPT ![c] =
                   [ pc |-> IF Global(getter) = None THEN "construct" ELSE "return",
                     getter |-> getter ]]
    /\ UNCHANGED <<fields, credential, _rag_service, _summary_service, instances>>

\* "RAGService()": the constructor runs, or raises out of the getter
GetterConstruct(c) ==
    /\ calls[c].pc = "construct"
    /\ LET made == Construct(calls[c].getter)
       IN  IF made.raised # ""
           THEN /\ calls' = [calls EXCEPT ![c] =
                               [ pc |-> "raised", getter |-> calls[c].getter,
                                 exc |-> made.raised ]]
                /\ UNCHANGED instances
           ELSE /\ instances' = Append(instances, made.obj)
                /\ calls' = [calls EXCEPT ![c] =
                               [ pc |-> "assign", getter |-> calls[c].getter,
                                 made |-> Len(instances) + 1 ]]
    /\ UNCHANGED <<fields, credential, _rag_service, _summary_service>>

\* "_rag_service = ..."
GetterAssign(c) ==
    /\ calls[c].pc = "assign"
    /\ SetGlobal(calls[c].getter, Some(calls[c].made))
    /\ calls' = [calls EXCEPT ![c] = [pc |-> "return", getter |-> calls[c].getter]]
    /\ UNCHANGED <<fields, credential, instances>>

\* "return _rag_service"
GetterReturn(c) ==
    /\ calls[c].pc = "return"
    /\ calls' = [calls EXCEPT ![c] =
                   [ pc |-> "done", getter |-> calls[c].getter,
                     ret |-> Global(calls[c].getter)[1] ]]
    /\ UNCHANGED <<fields, credential, _rag_service, _summary_service, instances>>

\* the first call of the backend through the instance a getter returned:
\* generate_embedding or generate_summary
BackendCall(c, fails) ==
    /\ calls[c].pc = "done"
    /\ calls' = [calls EXCEPT ![c] =
                   [ pc |-> "used", getter |-> calls[c].getter, ret |-> calls[c].ret,
                     result |-> IF ~instances[calls[c].ret]._configured
                                THEN "ValueError: not configured"
                                ELSE IF fails THEN "ValueError: failed"
                                ELSE "ok" ]]
    /\ UNCHANGED <<fields, credential, _rag_service, _summary_service, instances>>

GetTest ==
    /\ \E c \in Callers, getter \in Getters : GetterTest(c, getter)
    /\ UNCHANGED <<core, api, chat>>

GetConstruct ==
    /\ \E c \in Callers : GetterConstruct(c)
    /\ UNCHANGED <<core, api, chat>>

GetAssign ==
    /\ \E c \in Callers : GetterAssign(c)
    /\ UNCHANGED <<core, api, chat>>

GetReturn ==
    /\ \E c \in Callers : GetterReturn(c)
    /\ UNCHANGED <<core, api, chat>>

UseBackend ==
    /\ \E c \in Callers, fails \in BOOLEAN : BackendCall(c, fails)
    /\ UNCHANGED <<core, api, chat>>

BootNext ==
    \/ GetTest
    \/ GetConstruct
    \/ GetAssign
    \/ GetReturn
    \/ UseBackend

BootSpec == BootInit /\ [][BootNext]_vars

(***************************************************************************)
(* chunk_text on its own: every text over a letter and the characters the  *)
(* separators are made of, up to MaxTextLen characters.                    *)
(***************************************************************************)
ChunkAlphabet == {"a", " ", "\n", "."}

ChunkTexts == UNION { [1..n -> ChunkAlphabet] : n \in 0..MaxTextLen }

ChunkInit ==
    /\ sessions = <<>>
    /\ collections = <<>>
    /\ configured = TRUE
    /\ drawn = 0
    /\ issued = <<>>
    /\ ingested = <<>>
    /\ reqs = [r \in 1..MaxReqs |-> [pc |-> "idle"]]
    /\ known = {}
    /\ out = [op |-> "none"]
    /\ AsideIdle
    /\ \E t \in ChunkTexts : last = [op |-> "text", text |-> t]

\* chunks = self.text_processor.chunk_text(text)
Chunk ==
    /\ last.op = "text"
    /\ last' = [op |-> "chunk_text", text |-> last.text, ret |-> chunk_text(last.text)]
    /\ UNCHANGED <<sessions, collections, configured, drawn, issued, ingested>>
    /\ UNCHANGED <<api, aside>>

ChunkNext == Chunk

ChunkSpec == ChunkInit /\ [][ChunkNext]_vars

(***************************************************************************)
(* The extractors of ContentLoader on their own.  Bytes are numbers, the   *)
(* characters they decode to are named by CharOf.  What the libraries hand *)
(* back (the text of a PDF page, the text BeautifulSoup collects, the body *)
(* of a response) is an input.                                             *)
(***************************************************************************)
\* self.max_url_content_length
MAX_URL_CONTENT == 100000

\* the code points the byte strings below decode to, as characters
CharOf ==
    (97 :> "a") @@ (32 :> " ") @@ (195 :> "A~") @@ (169 :> "(c)")
      @@ (129 :> "U+0081") @@ (233 :> "e'") @@ (193 :> "A'")

IsContinuation(b) == b >= 128 /\ b <= 191

RECURSIVE Utf8Decode(_)
\* bytes.decode("utf-8") for sequences of one and two bytes: the code
\* points, or None for UnicodeDecodeError
Utf8Decode(bytes) ==
    IF bytes = <<>> THEN Some(<<>>)
    ELSE LET b == Head(bytes)
         IN  IF b < 128
             THEN LET rest == Utf8Decode(Tail(bytes))
                  IN  IF rest = None THEN None ELSE Some(<<b>> \o rest[1])
             ELSE IF b >= 194 /\ b <= 223 /\ Len(bytes) >= 2 /\ IsContinuation(bytes[2])
             THEN LET rest == Utf8Decode(Tail(Tail(bytes)))
                  IN  IF rest = None THEN None
                      ELSE Some(<<(b - 192) * 64 + (bytes[2] - 128)>> \o rest[1])
             ELSE None

\* bytes.decode("latin-1"): every byte is the code point of its value
Latin1Decode(bytes) == Some(bytes)

\* the bytes cp1252 leaves undefined
Cp1252Undefined == {129, 141, 143, 144, 157}

\* bytes.decode("cp1252"), for bytes outside 0x80-0x9F and the undefined ones
Cp1252Decode(bytes) ==
    IF \E i \in 1..Len(bytes) : bytes[i] \in Cp1252Undefined THEN None ELSE Some(bytes)

Decode(encoding, bytes) ==
    IF encoding = "utf-8" THEN Utf8Decode(bytes)
    ELSE IF encoding = "latin-1" THEN Latin1Decode(bytes)
    ELSE Cp1252Decode(bytes)

\* a slip: the encoding that accepts every byte string is tried first
Encodings_Latin1First == <<"latin-1", "utf-8", "cp1252">>

\* encodings = ["utf-8", "latin-1", "cp1252"]
Encodings == <<"utf-8", "latin-1", "cp1252">>

\* the loop over the encodings: the index of the first that decodes, 0 if
\* none does
FirstDecoding(bytes) ==
    LET good == {i \in 1..Len(Encodings) : Decode(Encodings[i], bytes) # None}
    IN  IF good = {} THEN 0 ELSE CHOOSE i \in good : \A j \in good : i <= j

\* str.title() on the letters of the file names below
Upper == ("n" :> "N") @@ ("t" :> "T") @@ ("x" :> "X") @@ ("a" :> "A")
Letters == DOMAIN Upper
TitleCase(s) ==
    [i \in 1..Len(s) |->
        IF s[i] \in Letters /\ (i = 1 \/ s[i - 1] \notin Letters) THEN Upper[s[i]]
        ELSE s[i]]

\* re.sub(r"\.\w+$", "", filename): a final extension is removed
WithoutExtension(name) ==
    LET dots == {i \in 1..(Len(name) - 1) :
                    /\ name[i] = "."
                    /\ \A j \in (i + 1)..Len(name) : name[j] \in Letters \cup {"_"}}
    IN  IF dots = {} THEN name
        ELSE Prefix(name, (CHOOSE i \in dots : \A j \in dots : i <= j) - 1)

\* re.sub(r"[-_]", " ", title)
Spaced(s) == [i \in 1..Len(s) |-> IF s[i] \in {"-", "_"} THEN " " ELSE s[i]]

\* ContentLoader.extract_from_text_file
extract_from_text_file(file_content, filename) ==
    LET k == FirstDecoding(file_content)
    IN  IF k = 0
        THEN [ok |-> FALSE, err |-> "Failed to read text file"]
        ELSE LET decoded == Decode(Encodings[k], file_content)[1]
                 text == [i \in 1..Len(decoded) |-> CharOf[decoded[i]]]
             IN  [ ok |-> TRUE,
                   text |-> clean_text(text),
                   title |-> TitleCase(Spaced(WithoutExtension(filename))) ]

RECURSIVE JoinPages(_)
\* "\n\n".join(text_parts)
JoinPages(parts) ==
    IF parts = <<>> THEN <<>>
    ELSE IF Len(parts) = 1 THEN parts[1]
    ELSE parts[1] \o <<"\n", "\n">> \o JoinPages(Tail(parts))

PdfDocument == <<"P", "D", "F", " ", "D", "o", "c", "u", "m", "e", "n", "t">>

\* ContentLoader.extract_from_pdf, given the title of the metadata and the
\* texts of the pages
extract_from_pdf(meta_title, pages) ==
    LET text_parts == SelectSeq(pages, LAMBDA p : p # <<>>)
        text == clean_text(JoinPages(text_parts))
        first_line == IF text # <<>> THEN SplitOn(text, <<"\n">>, <<>>)[1]
                      ELSE PdfDocument
        title == IF meta_title # <<>> THEN meta_title
                 ELSE IF Len(first_line) > 100 THEN Prefix(first_line, 100)
                 ELSE first_line
    IN  [ok |-> TRUE, text |-> text, title |-> Strip(title)]

\* ContentLoader._extract_from_html, given the title of the page, the title
\* taken from the url and the text BeautifulSoup collects
extract_from_html(page_title, url_title, collected) ==
    [ ok |-> TRUE,
      text |-> Prefix(clean_text(collected), MAX_URL_CONTENT),
      title |-> Strip(IF page_title # <<>> THEN page_title ELSE url_title) ]

\* the text/plain branch of load_from_url
plain_from_url(url_title, body) ==
    [ok |-> TRUE, text |-> Prefix(body, MAX_URL_CONTENT), title |-> url_title]

RawAlphabet == {"a", " ", "\t", "\n", "\f"}
RawTexts == UNION { [1..n -> RawAlphabet] : n \in 0..MaxRawLen }
PageTexts == UNION { [1..n -> {"a", "\n", " "}] : n \in 0..2 }
ByteAlphabet == {97, 32, 195, 169, 129}
ByteStrings == UNION { [1..n -> ByteAlphabet] : n \in 0..MaxBytes }
FileNames == { <<"n", ".", "t", "x", "t">>, <<"a", "_", "n">> }
Titles == { <<>>, <<"T">> }

\* the calls of the extractors
ExtractCalls ==
    { [path |-> "raw", text |-> t, title |-> None] : t \in RawTexts }
      \cup { [path |-> "html", page_title |-> p, url_title |-> <<"X">>, collected |-> t] :
               p \in Titles, t \in RawTexts }
      \cup { [path |-> "plain", url_title |-> <<"X">>, body |-> t] : t \in RawTexts }
      \cup { [path |-> "pdf", meta_title |-> m, pages |-> ps] :
               m \in Titles, ps \in UNION { [1..n -> PageTexts] : n \in 0..2 } }
      \cup { [path |-> "txt", file_content |-> b, filename |-> f] :
               b \in ByteStrings, f \in FileNames }

Extraction(c) ==
    IF c.path = "raw"
    THEN [ok |-> TRUE] @@ extract_from_raw_text(c.text, c.title)
    ELSE IF c.path = "html" THEN extract_from_html(c.page_title, c.url_title, c.collected)
    ELSE IF c.path = "plain" THEN plain_from_url(c.url_title, c.body)
    ELSE IF c.path = "pdf" THEN extract_from_pdf(c.meta_title, c.pages)
    ELSE extract_from_text_file(c.file_content, c.filename)

ExtractInit ==
    /\ sessions = <<>>
    /\ collections = <<>>
    /\ configured = TRUE
    /\ drawn = 0
    /\ issued = <<>>
    /\ ingested = <<>>
    /\ reqs = [r \in 1..MaxReqs |-> [pc |-> "idle"]]
    /\ known = {}
    /\ out = [op |-> "none"]
    /\ AsideIdle
    /\ \E c \in ExtractCalls : last = [op |-> "call", call |-> c]

\* the extractor of the call runs
Extract ==
    /\ last.op = "call"
    /\ last' = [op |-> "extracted", call |-> last.call, ret |-> Extraction(last.call)]
    /\ UNCHANGED <<sessions, collections, configured, drawn, issued, ingested>>
    /\ UNCHANGED <<api, aside>>

ExtractNext == Extract

ExtractSpec == ExtractInit /\ [][ExtractNext]_vars

(***************************************************************************)
(* The real-time chat layer (socketio_manager) with the enrolment          *)
(* endpoints of the classroom router.  The handlers are coroutines of one  *)
(* event loop: a handler runs alone from one await to the next.  The       *)
(* database calls (is_user_in_classroom, save_message, the queries of the  *)
(* router) are blocking calls without await.  out holds the event the      *)
(* server emitted last to the caller, or the answer of the router.         *)
(***************************************************************************)
Sids == 1..MaxSids
Classrooms == {1}
\* Classroom.teacher_id
TeacherOf == [c \in Classrooms |-> 1]
Students == {2}
Users == {1} \cup Students

\* the longest content send_message accepts
MAX_MESSAGE_CHARS == 2000

\* the tokens a client sends: none, one that does not verify, one of a user
Tokens == {None, <<"bad">>} \cup {<<"user", u>> : u \in Users}

\* get_user_from_token: the user of a token that verifies, or None
get_user_from_token(token) ==
    IF token # None /\ token[1] = "user" THEN Some(token[2]) ELSE None

\* is_user_in_classroom: the teacher of the classroom or an enrolled student
is_user_in_classroom(user_id, classroom_id) ==
    /\ classroom_id \in Classrooms
    /\ \/ TeacherOf[classroom_id] = user_id
       \/ <<user_id, classroom_id>> \in enrolled

\* connected_users[sid] for a connection without a user
Anonymous == [user_id |-> None, rooms |-> {}, authenticated |-> FALSE]

\* an event emitted to the caller
Emitted(handler, sid, event, message) ==
    [op |-> handler, sid |-> sid, event |-> event, message |-> message]

\* the classroom ids of the data of an event: 0 stands for a missing one
DataClassrooms == Classrooms \cup {0}

\* the contents of the messages clients send
Contents == { <<>>, <<" ">>, <<" ", "h">>, [i \in 1..(MAX_MESSAGE_CHARS + 1) |-> "h"] }

ChatInit ==
    /\ sessions = <<>>
    /\ collections = <<>>
    /\ configured = TRUE
    /\ drawn = 0
    /\ issued = <<>>
    /\ ingested = <<>>
    /\ last = [op |-> "none"]
    /\ reqs = [r \in 1..MaxReqs |-> [pc |-> "idle"]]
    /\ known = {}
    /\ out = [op |-> "none"]
    /\ BootIdle
    /\ connected_users = <<>>
    /\ sio_rooms = [c \in Classrooms |-> {}]
    /\ enrolled \in SUBSET (Students \X Classrooms)
    /\ messages = <<>>
    /\ handlers = [s \in Sids |-> Idle]
    /\ delivered = <<>>

\* what the chat layer leaves alone
nochat == <<core, boot, reqs, known>>

\* connect: every connection is accepted, with or without a user
connect(sid, token) ==
    /\ sid \notin DOMAIN connected_users
    /\ LET user == IF token = None THEN None ELSE get_user_from_token(token)
       IN  /\ connected_users' =
                 (sid :> IF user = None THEN Anonymous
                         ELSE [user_id |-> user, rooms |-> {}, authenticated |-> TRUE])
                 @@ connected_users
           /\ out' = IF user = None THEN Emitted("connect", sid, "none", "")
                     ELSE Emitted("connect", sid, "connected", "")
    /\ UNCHANGED <<sio_rooms, enrolled, messages, handlers, delivered>>

\* join_room up to await sio.enter_room
join_room_start(sid, classroom_id) ==
    /\ handlers[sid] = Idle
    /\ UNCHANGED <<connected_users, sio_rooms, enrolled, messages, delivered>>
    /\ LET error(message) ==
               /\ out' = Emitted("join_room", sid, "error", message)
               /\ UNCHANGED handlers
       IN  IF sid \notin DOMAIN connected_users THEN error("Not connected")
           ELSE IF ~connected_users[sid].authenticated \/ connected_users[sid].user_id = None
           THEN error("Not authenticated")
           ELSE IF classroom_id = 0 THEN error("classroom_id is required")
           ELSE IF ~is_user_in_classroom(connected_users[sid].user_id[1], classroom_id)
           THEN error("Not authorized to join this classroom")
           ELSE /\ handlers' = [handlers EXCEPT ![sid] =
                                  [pc |-> "enter", classroom_id |-> classroom_id]]
                /\ UNCHANGED out

\* sio.enter_room returned: user_info['rooms'].add and the room_joined event
join_room_entered(sid) ==
    /\ handlers[sid].pc = "enter"
    /\ LET classroom_id == handlers[sid].classroom_id
       IN  /\ sio_rooms' = [sio_rooms EXCEPT ![classroom_id] = @ \cup {sid}]
           /\ connected_users' =
                 [connected_users EXCEPT ![sid].rooms = @ \cup {classroom_id}]
           /\ out' = Emitted("join_room", sid, "room_joined", "")
    /\ handlers' = [handlers EXCEPT ![sid] = Idle]
    /\ UNCHANGED <<enrolled, messages, delivered>>

\* leave_room up to await sio.leave_room
leave_room_start(sid, classroom_id) ==
    /\ handlers[sid] = Idle
    /\ UNCHANGED <<connected_users, sio_rooms, enrolled, messages, delivered>>
    /\ IF sid \notin DOMAIN connected_users \/ classroom_id = 0
       THEN /\ out' = Emitted("leave_room", sid, "none", "")
            /\ UNCHANGED handlers
       ELSE /\ handlers' = [handlers EXCEPT ![sid] =
                              [pc |-> "leave", classroom_id |-> classroom_id]]
            /\ UNCHANGED out

\* sio.leave_room returned: user_info['rooms'].discard and the room_left event
leave_room_left(sid) ==
    /\ handlers[sid].pc = "leave"
    /\ LET classroom_id == handlers[sid].classroom_id
       IN  /\ sio_rooms' = [sio_rooms EXCEPT ![classroom_id] = @ \ {sid}]
           /\ connected_users' =
                 [connected_users EXCEPT ![sid].rooms = @ \ {classroom_id}]
           /\ out' = Emitted("leave_room", sid, "room_left", "")
    /\ handlers' = [handlers EXCEPT ![sid] = Idle]
    /\ UNCHANGED <<enrolled, messages, delivered>>

\* send_message takes a classroom among user_info['rooms'] as verified
send_message_trusts(user_info, classroom_id) == classroom_id \in user_info.rooms

\* save_message: the row of the message; member records whether the sender
\* was the teacher or enrolled when the row was written
save_message(classroom_id, sender_id, content) ==
    [ classroom_id |-> classroom_id, sender_id |-> sender_id, content |-> content,
      member |-> is_user_in_classroom(sender_id, classroom_id) ]

\* send_message up to the await of the broadcast
send_message_start(sid, classroom_id, raw) ==
    /\ handlers[sid] = Idle
    /\ Len(messages) < MaxMessages
    /\ UNCHANGED <<connected_users, sio_rooms, enrolled, delivered>>
    /\ LET error(message) ==
               /\ out' = Emitted("send_message", sid, "error", message)
               /\ UNCHANGED <<handlers, messages>>
           content == Strip(raw)
       IN  IF sid \notin DOMAIN connected_users THEN error("Not connected")
           ELSE IF ~connected_users[sid].authenticated \/ connected_users[sid].user_id = None
           THEN error("Not authenticated")
           ELSE IF classroom_id = 0 THEN error("classroom_id is required")
           ELSE IF content = <<>> THEN error("Message content is required")
           ELSE IF Len(content) > MAX_MESSAGE_CHARS THEN error("Message too long")
           ELSE LET user_id == connected_users[sid].user_id[1]
                IN  IF /\ ~send_message_trusts(connected_users[sid], classroom_id)
                       /\ ~is_user_in_classroom(user_id, classroom_id)
                    THEN error("Not authorized to send messages in this classroom")
                    ELSE /\ messages' = Append(messages,
                                               save_message(classroom_id, user_id, content))
                         /\ handlers' = [handlers EXCEPT ![sid] =
                                           [pc |-> "emit", message |-> Len(messages) + 1]]
                         /\ UNCHANGED out

\* the broadcast of message_received to the room of the classroom
send_message_emit(sid) ==
    /\ handlers[sid].pc = "emit"
    /\ LET message == messages[handlers[sid].message]
       IN  delivered' = Append(delivered,
                               [message |-> message, to |-> sio_rooms[message.classroom_id]])
    /\ out' = Emitted("send_message", sid, "none", "")
    /\ handlers' = [handlers EXCEPT ![sid] = Idle]
    /\ UNCHANGED <<connected_users, sio_rooms, enrolled, messages>>

\* an answer of the classroom router
Answer(op, user, status) == [op |-> op, user |-> user, status |-> status]

\* enroll_in_classroom, for a student (get_student_user); classroom: the
\* classroom of the class code, 0 when the code names none
enroll_in_classroom(user, classroom) ==
    /\ UNCHANGED <<connected_users, sio_rooms, messages, handlers, delivered>>
    /\ IF classroom \notin Classrooms
       THEN out' = Answer("enroll", user, 404) /\ UNCHANGED enrolled
       ELSE IF <<user, classroom>> \in enrolled
       THEN out' = Answer("enroll", user, 400) /\ UNCHANGED enrolled
       ELSE /\ enrolled' = enrolled \cup {<<user, classroom>>}
            /\ out' = Answer("enroll", user, 200)

\* unenroll_from_classroom, for a student (get_student_user)
unenroll_from_classroom(user, classroom_id) ==
    /\ UNCHANGED <<connected_users, sio_rooms, messages, handlers, delivered>>
    /\ IF classroom_id \notin Classrooms
       THEN out' = Answer("unenroll", user, 404) /\ UNCHANGED enrolled
       ELSE IF <<user, classroom_id>> \notin enrolled
       THEN out' = Answer("unenroll", user, 400) /\ UNCHANGED enrolled
       ELSE /\ enrolled' = enrolled \ {<<user, classroom_id>>}
            /\ out' = Answer("unenroll", user, 204)

Connect ==
    /\ \E sid \in Sids, token \in Tokens : connect(sid, token)
    /\ UNCHANGED nochat

JoinRoom ==
    /\ \E sid \in Sids, classroom_id \in DataClassrooms : join_room_start(sid, classroom_id)
    /\ UNCHANGED nochat

JoinEntered ==
    /\ \E sid \in Sids : join_room_entered(sid)
    /\ UNCHANGED nochat

LeaveRoom ==
    /\ \E sid \in Sids, classroom_id \in DataClassrooms : leave_room_start(sid, classroom_id)
    /\ UNCHANGED nochat

LeaveLeft ==
    /\ \E sid \in Sids : leave_room_left(sid)
    /\ UNCHANGED nochat

SendMessage ==
    /\ \E sid \in Sids, classroom_id \in DataClassrooms, raw \in Contents :
           send_message_start(sid, classroom_id, raw)
    /\ UNCHANGED nochat

SendEmit ==
    /\ \E sid \in Sids : send_message_emit(sid)
    /\ UNCHANGED nochat

Enroll ==
    /\ \E user \in Students, classroom \in DataClassrooms : enroll_in_classroom(user, classroom)
    /\ UNCHANGED nochat

Unenroll ==
    /\ \E user \in Students, classroom_id \in DataClassrooms :
           unenroll_from_classroom(user, classroom_id)
    /\ UNCHANGED nochat

ChatNext ==
    \/ Connect
    \/ JoinRoom
    \/ JoinEntered
    \/ LeaveRoom
    \/ LeaveLeft
    \/ SendMessage
    \/ SendEmit
    \/ Enroll
    \/ Unenroll

ChatSpec == ChatInit /\ [][ChatNext]_vars

(***************************************************************************)
(* The source excerpts of chat_with_material, on their own: the retrieved  *)
(* chunks are drawn from lists of chunks around the excerpt length.        *)
(***************************************************************************)
\* retrieved chunks: a short one, one of exactly the excerpt length and
\* one a character longer
RetrievedChunks ==
    { <<"c", "d">>, Rep("a", EXCERPT_CHARS), Rep("b", EXCERPT_CHARS + 1) }

\* the lists of retrieved chunks
RetrievedLists ==
    UNION { [1..n -> RetrievedChunks] : n \in 0..MaxRetrieved }

ExcerptInit ==
    /\ sessions = <<>>
    /\ collections = <<>>
    /\ configured = TRUE
    /\ drawn = 0
    /\ issued = <<>>
    /\ ingested = <<>>
    /\ reqs = [r \in 1..MaxReqs |-> [pc |-> "idle"]]
    /\ known = {}
    /\ out = [op |-> "none"]
    /\ AsideIdle
    /\ \E cs \in RetrievedLists : last = [op |-> "retrieved", context_chunks |-> cs]

\* line 219 of chat_with_material applied to the retrieved chunks
Excerpt ==
    /\ last.op = "retrieved"
    /\ last' = [op |-> "sources", context_chunks |-> last.context_chunks,
                ret |-> SourceExcerpts(last.context_chunks)]
    /\ UNCHANGED <<sessions, collections, configured, drawn, issued, ingested>>
    /\ UNCHANGED api
    /\ UNCHANGED aside

ExcerptNext == Excerpt

ExcerptSpec == ExcerptInit /\ [][ExcerptNext]_vars

(***************************************************************************)
(* Properties.                                                             *)
(***************************************************************************)
CreateFailed == last.op = "create_session" /\ ~last.ok
QueryReturned == last.op = "query" /\ last.ok
NotFound == {[ok |-> FALSE, err |-> "not found", events |-> <<>>]}

\* C1: when create_session fails, no session is registered under the id
\* it drew and no vector collection created by the call remains.
C1_FailedCreateLeavesNothing ==
    CreateFailed =>
        /\ last.sid \notin DOMAIN sessions
        /\ collection_name(last.sid) \notin DOMAIN collections

\* C2: a vector collection exists for a session id if and only if
\* metadata is registered for that id.
C2_CollectionIffRegistered ==
    \A id \in Ids :
        collection_name(id) \in DOMAIN collections <=> id \in DOMAIN sessions

\* C3: the collection of every registered session holds exactly
\* chunk_count vectors, the k-th being the k-th chunk the chunker produces
\* for the session's text, and chunk_count is the number of those chunks.
C3_IndexHoldsEveryChunk ==
    \A id \in DOMAIN sessions :
        LET md == sessions[id]
            chunks == Chunks[ingested[id]]
        IN  /\ md.collection_name \in DOMAIN collections
            /\ md.chunk_count = Len(chunks)
            /\ Len(collections[md.collection_name]) = md.chunk_count
            /\ \A k \in 1..Len(collections[md.collection_name]) :
                   /\ k <= Len(chunks)
                   /\ collections[md.collection_name][k].document = chunks[k]
                   /\ collections[md.collection_name][k].id = <<"chunk", k - 1>>

\* a session of two chunks is registered beside a collection that a failed
\* create_session left half filled
C3_Witness ==
    /\ \E id \in DOMAIN sessions : sessions[id].chunk_count = 2
    /\ \E id \in Ids :
           /\ id \notin DOMAIN sessions
           /\ collection_name(id) \in DOMAIN collections
           /\ Len(collections[collection_name(id)]) = 1

\* C4: every id create_session returns differs from every id it returned
\* before, the ids of sessions deleted since included.
C4_IdsNeverReused ==
    /\ \A i, j \in 1..Len(issued) : i # j => issued[i] # issued[j]
    /\ (last.op = "create_session" /\ last.ok) =>
           /\ Len(issued) > 0
           /\ last.ret = issued[Len(issued)]

\* a session was deleted and the same text was ingested again
C4_Witness ==
    /\ last.op = "create_session" /\ last.ok
    /\ Len(issued) = 2
    /\ issued[1] \notin DOMAIN sessions
    /\ ingested[issued[1]] = ingested[issued[2]]

\* C5: after delete_session on a registered id, session_exists is False,
\* get_session_info is absent and every query fails with not-found;
\* delete_session on an unknown id returns False without raising and
\* leaves the registry and the collections as they were.
C5_DeleteThenAbsent ==
    [][ \A id \in Ids :
          (last'.op = "delete_session" /\ last'.sid = id) =>
              IF id \in DOMAIN sessions
              THEN /\ ~session_exists(id)'
                   /\ get_session_info(id)' = None
                   /\ \A top_k \in TopKs, qfail \in BOOLEAN, qvec \in Vectors :
                          QueryOutcomes(id, top_k, qfail, qvec)' = NotFound
              ELSE /\ last'.ok
                   /\ last'.ret = FALSE
                   /\ UNCHANGED <<sessions, collections>> ]_vars

\* a registered session was deleted
C5_Witness ==
    /\ last.op = "delete_session"
    /\ last.ret
    /\ last.sid \in DOMAIN ingested

\* C6: delete_session returns True exactly when the id was registered, and
\* then the metadata is gone, also when delete_collection raised; it never
\* raises; a second call with the same id returns False and changes nothing.
C6_DeleteReturnsWhetherRegistered ==
    [][ last'.op = "delete_session" =>
          /\ last'.ok
          /\ last'.ret = (last'.sid \in DOMAIN sessions)
          /\ last'.sid \notin DOMAIN sessions'
          /\ (last.op = "delete_session" /\ last.sid = last'.sid) =>
                 /\ last'.ret = FALSE
                 /\ UNCHANGED <<sessions, collections>> ]_vars

\* a registered session was deleted while delete_collection raised
C6_Witness ==
    /\ last.op = "delete_session"
    /\ last.ret
    /\ last.raised
    /\ last.sid \notin DOMAIN sessions

\* the sessions other than the one create_session or delete_session ran
\* on are as the call found them: registered, with the same metadata, the
\* same collection and the same query outcomes
OthersAsBefore ==
    last.op \in {"create_session", "delete_session"} =>
        /\ Without(sessions, last.sid) = last.before.sessions
        /\ Without(collections, collection_name(last.sid)) = last.before.collections
        /\ \A id \in DOMAIN last.before.sessions :
               \A top_k \in TopKs, qfail \in BOOLEAN, qvec \in Vectors :
                   QueryOutcomes(id, top_k, qfail, qvec) =
                       QueryOutcomesIn(last.before.sessions, last.before.collections,
                                       id, top_k, qfail, qvec)

\* C7: a call on one session (create_session, delete_session, query)
\* leaves every other registered session registered, with the same
\* metadata, the same collection and the same query outcomes.
C7_SessionsIndependent ==
    /\ []OthersAsBefore
    /\ [][last'.op = "query" => UNCHANGED <<sessions, collections, configured>>]_vars

\* of two sessions ingested from the same text one was deleted and the
\* other is still registered
C7_Witness ==
    /\ last.op = "delete_session"
    /\ last.ret
    /\ \E id \in DOMAIN sessions : ingested[id] = ingested[last.sid]

\* C8: query with a caller-supplied top_k = k >= 0 returns at most k
\* results and at most chunk_count results; with top_k omitted, at most
\* the configured default.
C8_AtMostTopKResults ==
    QueryReturned =>
        /\ Len(last.ret) <= (IF last.top_k = None THEN RAG_TOP_K ELSE last.top_k[1])
        /\ Len(last.ret) <= sessions[last.sid].chunk_count

\* C9: every result of query(id, ...) is an entry of the collection of
\* session id: its text is a chunk produced at ingest for that session
\* and its metadata are that chunk's index and the session's source tag.
C9_ResultsAreOwnChunks ==
    QueryReturned =>
        LET chunks == Chunks[ingested[last.sid]]
            coll == collections[collection_name(last.sid)]
        IN  \A i \in 1..Len(last.ret) :
                \E k \in 1..Len(chunks) :
                    /\ last.ret[i].text = chunks[k]
                    /\ last.ret[i].metadata =
                           [ chunk_index |-> k - 1,
                             source |-> sessions[last.sid].source_type ]
                    /\ k <= Len(coll)
                    /\ last.ret[i].text = coll[k].document
                    /\ last.ret[i].distance = distance(coll[k].embedding, last.q)

\* a query returned results while a session of another text was registered
C9_Witness ==
    /\ QueryReturned
    /\ Len(last.ret) = 2
    /\ \E id \in DOMAIN sessions :
           id # last.sid /\ ingested[id] # ingested[last.sid]

\* C10: the list query returns is in order of non-decreasing distance and
\* holds the top_k (as query passes it on, clamped to the number of
\* chunks) distinct chunks of the session closest to the query embedding.
C10_ClosestFirst ==
    QueryReturned =>
        LET coll == collections[collection_name(last.sid)]
            ret == last.ret
            hit(i) == ret[i].metadata.chunk_index + 1
            d(k) == distance(coll[k].embedding, last.q)
        IN  /\ Len(ret) = Min(EffectiveTopK(last.top_k), Len(coll))
            /\ \A i \in 1..Len(ret) :
                   /\ hit(i) \in DOMAIN coll
                   /\ ret[i].text = coll[hit(i)].document
                   /\ ret[i].distance = d(hit(i))
            /\ \A i, j \in 1..Len(ret) :
                   i < j => /\ hit(i) # hit(j)
                            /\ DistLeq(ret[i].distance, ret[j].distance)
            /\ \A k \in DOMAIN coll :
                   (\A i \in 1..Len(ret) : hit(i) # k) =>
                       \A i \in 1..Len(ret) : DistLeq(ret[i].distance, d(k))

\* a query returned two chunks at different distances
C10_Witness ==
    /\ QueryReturned
    /\ Len(last.ret) = 2
    /\ ~DistLeq(last.ret[2].distance, last.ret[1].distance)

\* C17: within one create_session the j-th embedding call is for chunk
\* j - 1 (chunker order), it is made only after every earlier chunk was
\* added to the collection, and the k-th vector stored carries chunk
\* index k - 1 and the source tag of the call.
C17_ChunksEmbeddedInOrder ==
    (last.op = "create_session" /\ last.events # <<>>) =>
        LET ev == last.events
            chunks == Chunks[last.text]
            coll == collections[collection_name(last.sid)]
            embeds(i) == {j \in 1..i : ev[j].call = "generate_embedding"}
            adds(i) == {ev[j].chunk : j \in {m \in 1..i : ev[m].call = "collection.add"}}
        IN  /\ \A i \in 1..Len(ev) :
                   ev[i].call = "generate_embedding" =>
                       /\ ev[i].chunk = Cardinality(embeds(i)) - 1
                       /\ ev[i].chunk < Len(chunks)
                       /\ adds(i) = 0..(ev[i].chunk - 1)
            /\ \A i \in 1..Len(ev) :
                   ev[i].call = "collection.add" =>
                       /\ i > 1
                       /\ ev[i - 1] = EmbedCall("generate_embedding", ev[i].chunk, TRUE)
            /\ Len(coll) = Cardinality(adds(Len(ev)))
            /\ \A k \in 1..Len(coll) :
                   /\ coll[k].document = chunks[k]
                   /\ coll[k].metadata =
                          [chunk_index |-> k - 1, source |-> last.source_type]

\* a text of two chunks was ingested: both were embedded and added
C17_Witness ==
    /\ last.op = "create_session" /\ last.ok
    /\ Len(last.events) = 4
    /\ Len(collections[collection_name(last.sid)]) = 2

\* C15: the source excerpts are at most 3; the i-th is built from the
\* i-th retrieved chunk: its first 200 characters followed by "..." when
\* the chunk is longer than 200 characters (203 characters in all), the
\* whole chunk otherwise.
C15_SourceExcerpts ==
    last.op = "sources" =>
        LET cs == last.context_chunks
            ret == last.ret
        IN  /\ Len(ret) <= 3
            /\ Len(ret) = Min(3, Len(cs))
            /\ \A i \in 1..Len(ret) :
                   /\ Len(ret[i]) <= 203
                   /\ IF Len(cs[i]) > 200
                      THEN /\ Len(ret[i]) = 203
                           /\ SubSeq(ret[i], 1, 200) = SubSeq(cs[i], 1, 200)
                           /\ SubSeq(ret[i], 201, 203) = <<".", ".", ".">>
                      ELSE ret[i] = cs[i]

\* four chunks were retrieved, the first of exactly 200 characters, the
\* second longer, the third short
C15_Witness ==
    /\ last.op = "sources"
    /\ Len(last.context_chunks) = 4
    /\ Len(last.context_chunks[1]) = 200
    /\ Len(last.context_chunks[2]) = 201
    /\ Len(last.context_chunks[3]) = 2
    /\ Len(last.ret) = 3

\* a request that began and was answered within the step
Answers(op) ==
    /\ \E slot \in Slots : reqs[slot] = Idle /\ reqs'[slot] = Done
    /\ out'.op = op

\* C11: query with a session id that is not registered raises the not-found
\* error without calling the embedding service, and an ask of a permitted
\* caller for such an id is answered 404 "session not found" with no call
\* of a backend, the registry and the collections staying as they were.
C11_UnknownSessionNotFound ==
    [][ /\ \A session_id \in (0..MaxIds) \ DOMAIN sessions :
              \A qfail \in BOOLEAN, qvec \in ApiQueryVectors :
                  QueryOutcomes(session_id, None, qfail, qvec) = NotFound
        /\ ( Answers("ask") /\ out'.rq.student
               /\ out'.rq.session_id \notin DOMAIN sessions )
             => /\ out'.status = 404
                /\ out'.detail = "session not found"
                /\ out'.events = <<>>
                /\ sessions' = sessions
                /\ collections' = collections ]_vars

\* an ask for a session that was ingested and then deleted was answered 404
C11_Witness ==
    /\ out.op = "ask"
    /\ out.status = 404
    /\ out.detail = "session not found"
    /\ out.rq.session_id \in known
    /\ out.rq.session_id \notin DOMAIN sessions

\* C12: with no credential configured, an ingest of a permitted caller is
\* answered 503 "AI service not configured" at once, whatever the source
\* kind and the content: no backend is called, no session is registered
\* and no collection is created.
C12_UnconfiguredIngestRefused ==
    [][ ~configured =>
          /\ \A slot \in Slots : reqs'[slot].pc \notin {"extract", "summary"}
          /\ ( Answers("ingest") /\ out'.rq.student )
               => /\ out'.status = 503
                  /\ out'.detail = "AI service not configured"
                  /\ out'.events = <<>>
                  /\ sessions' = sessions /\ DOMAIN sessions = {}
                  /\ collections' = collections /\ DOMAIN collections = {} ]_vars

\* an upload of a file was refused for the missing credential
C12_Witness ==
    /\ ~configured
    /\ out.op = "ingest"
    /\ out.status = 503
    /\ out.rq.source_type = "pdf"
    /\ out.rq.file # None
    /\ DOMAIN sessions = {}
    /\ DOMAIN collections = {}

\* every call of a backend in the list succeeded
AllOk(events) == \A i \in 1..Len(events) : events[i].ok

\* the request of the slot ends in this step
Ends(slot) == reqs[slot] # Done /\ reqs'[slot] = Done

\* C13: with a credential configured, an ingest of a text of more than 100
\* characters after trimming is refused only if a backend call fails; it
\* registers exactly one new session, whose chunk_count is the number of
\* chunks chunk_text yields for the text (Chunks), and when the summary is
\* generated it is answered 200 with that session id and chunk_count.
C13_LongTextIngestSucceeds ==
    [][ /\ ( Answers("ingest") /\ out'.rq.student /\ configured
               /\ out'.rq.source_type = "text" /\ Truthy(out'.rq.content)
               /\ Len(Strip(RawText[out'.rq].text)) > MIN_CONTENT_CHARS )
             => ~AllOk(out'.events)
        /\ \A slot \in Slots :
             /\ ( reqs[slot].pc # "summary" /\ reqs'[slot].pc = "summary" )
                  => LET r == reqs'[slot]
                     IN  /\ r.sid \notin DOMAIN sessions
                         /\ DOMAIN sessions' = DOMAIN sessions \cup {r.sid}
                         /\ \A s \in DOMAIN sessions : sessions'[s] = sessions[s]
                         /\ sessions'[r.sid].chunk_count = Len(Chunks[r.text])
                         /\ AllOk(r.events)
             /\ ( reqs[slot].pc = "summary" /\ Ends(slot) /\ AllOk(out'.events) )
                  => /\ out'.status = 200
                     /\ out'.body.session_id = reqs[slot].sid
                     /\ out'.body.chunk_count = Len(Chunks[reqs[slot].text])
                     /\ Len(Chunks[reqs[slot].text]) > 0
                     /\ sessions' = sessions ]_vars

\* an ingest of raw text of 108 characters after cleaning was answered 200
C13_Witness ==
    /\ out.op = "ingest"
    /\ out.status = 200
    /\ out.rq.source_type = "text"
    /\ Len(Strip(out.body.text)) > MIN_CONTENT_CHARS
    /\ out.body.chunk_count = Len(Chunks[out.body.text])
    /\ out.body.session_id \in DOMAIN sessions

\* the request lacks the field its source kind requires
MissingField(rq) ==
    IF rq.source_type \in {"url", "text"} THEN ~Truthy(rq.content) ELSE rq.file = None

\* the response is a validation error and the request did nothing else
Refused ==
    /\ out'.status = 400
    /\ out'.events = <<>>
    /\ sessions' = sessions
    /\ collections' = collections
    /\ drawn' = drawn

\* C14: with a credential configured, an ingest of a permitted caller that
\* lacks its required field, or whose content has fewer than 100 characters
\* after trimming, is answered 400 before create_session is called: the
\* registry and the collections are unchanged and no backend is called;
\* and no collection is ever created for a text below the minimum.
C14_InvalidIngestRefused ==
    [][ /\ ( Answers("ingest") /\ out'.rq.student /\ configured
               /\ MissingField(out'.rq) )
             => Refused
        /\ ( Answers("ingest") /\ out'.rq.student /\ configured
               /\ out'.rq.source_type = "text" /\ ~MissingField(out'.rq)
               /\ Len(Strip(RawText[out'.rq].text)) < MIN_CONTENT_CHARS )
             => Refused /\ out'.detail = "content too short"
        /\ \A slot \in Slots :
             ( reqs[slot].pc = "extract" /\ Ends(slot)
                 /\ out'.detail = "content too short" )
               => Refused
        /\ ( DOMAIN collections' # DOMAIN collections /\ last'.op = "create_session" )
             => Len(Strip(last'.text)) >= MIN_CONTENT_CHARS ]_vars

\* the page fetched for a url source was too short: 400, nothing created
C14_Witness ==
    /\ out.op = "ingest"
    /\ out.rq.source_type = "url"
    /\ out.status = 400
    /\ out.detail = "content too short"
    /\ out.events = <<>>
    /\ DOMAIN sessions = {}
    /\ DOMAIN collections = {}

\* the step is a delete_session of the session
Deletes(session_id) == last'.op = "delete_session" /\ last'.sid = session_id

\* C16: a registered session stays as it is until it is deleted: a step
\* that is not its own delete (an ingest, an ask with session_exists and
\* query, a describe with get_session_info, a delete of another session)
\* keeps it registered with the same metadata and the same collection, and
\* get_session_context keeps returning the start of the text it was
\* ingested from.
C16_SessionImmutable ==
    [][ \A s \in DOMAIN sessions :
          /\ get_session_context(s) = Prefix(ingested[s], FULL_TEXT_CHARS)
          /\ session_exists(s)
          /\ get_session_info(s) = Some(sessions[s])
          /\ ~Deletes(s) =>
               /\ s \in DOMAIN sessions'
               /\ sessions'[s] = sessions[s]
               /\ sessions[s].collection_name \in DOMAIN collections'
               /\ collections'[sessions[s].collection_name]
                    = collections[sessions[s].collection_name] ]_vars

\* a session was described after another one was ingested and deleted
C16_Witness ==
    /\ Len(issued) = 2
    /\ Cardinality(DOMAIN sessions) = 1
    /\ out.op = "describe"
    /\ out.status = 200
    /\ out.rq.session_id \in DOMAIN sessions
    /\ last.op = "delete_session"
    /\ last.ret

\* the elements of a sequence
Range(seq) == {seq[i] : i \in 1..Len(seq)}

\* the metadata a session has when its ingest is the only request
AloneMetadata(session_id, title, source_type) ==
    Metadata(session_id, ingested[session_id], title, source_type,
             Chunks[ingested[session_id]])

\* C18: whatever requests are interleaved at the awaits, a step adds or
\* removes at most one registry entry and alters none; an ingest is
\* answered with the id and chunk_count of the session it registered
\* itself, an ask with chunks of the session it named, and a describe with
\* the metadata that session was registered with.
C18_InterleavingKeepsRegistry ==
    [][ /\ \A s \in DOMAIN sessions \cap DOMAIN sessions' : sessions'[s] = sessions[s]
        /\ Cardinality(DOMAIN sessions \ DOMAIN sessions') <= 1
        /\ Cardinality(DOMAIN sessions' \ DOMAIN sessions) <= 1
        /\ \A s \in DOMAIN sessions \ DOMAIN sessions' : Deletes(s)
        /\ \A slot \in Slots :
             /\ ( reqs[slot].pc = "summary" /\ Ends(slot) /\ out'.status = 200 )
                  => LET r == reqs[slot]
                     IN  /\ out'.body.session_id = r.sid
                         /\ ingested[r.sid] = r.text
                         /\ out'.body.text = r.text
                         /\ out'.body.chunk_count = Len(Chunks[r.text])
                         /\ sessions[r.sid]
                              = AloneMetadata(r.sid, r.title, r.rq.source_type)
             /\ ( reqs[slot].pc = "answer" /\ Ends(slot) /\ out'.status = 200 )
                  => Range(out'.body.context_chunks)
                       \subseteq Range(Chunks[ingested[out'.rq.session_id]])
        /\ ( out'.op = "describe" /\ out'.status = 200 )
             => LET s == out'.rq.session_id
                IN  /\ out'.body.chunk_count = Len(Chunks[ingested[s]])
                    /\ sessions[s]
                         = AloneMetadata(s, out'.body.title, out'.body.source_type) ]_vars

\* an ingest was answered while a second one, registered after it with a
\* different number of chunks, was waiting for its summary
C18_Witness ==
    /\ out.op = "ingest"
    /\ out.status = 200
    /\ \E slot \in Slots :
         /\ reqs[slot].pc = "summary"
         /\ reqs[slot].sid > out.body.session_id
         /\ Len(Chunks[reqs[slot].text]) # out.body.chunk_count

\* C19: with no credential configured, an ingest and an ask of a permitted
\* caller are both answered with the status kept for the configuration
\* error (503), which no validation, extraction, not-found or
\* backend-failure error uses.
C19_ConfigurationErrorDistinct ==
    /\ ( out.op \in {"ingest", "ask"} /\ out.rq.student /\ ~configured )
         => out.status = 503
    /\ ( out.op \in {"ingest", "ask"} /\ out.rq.student /\ configured )
         => out.status # 503

\* the calls that go to the embedding and generation backends
BackendCalls ==
    {"generate_embedding", "generate_query_embedding", "generate_summary",
     "generate_chat_response"}

\* no backend call is made twice for the same item and none follows a
\* call that failed
NoRetry(events) ==
    /\ \A i \in 1..Len(events), j \in 1..Len(events) :
           ( i < j /\ events[i].call \in BackendCalls /\ events[i].call = events[j].call )
             => events[i].chunk # events[j].chunk
    /\ \A i \in 1..(Len(events) - 1) : events[i].ok

\* C20: the calls one request makes never hold a backend call twice (one
\* generate_embedding per chunk and one generate_summary in an ingest, one
\* generate_query_embedding and one generate_chat_response in an ask), a
\* failed call is the last call of its request, and a request that waits
\* for a backend has had no failure yet.
C20_NoRetry ==
    /\ out.op \in {"ingest", "ask"} => NoRetry(out.events)
    /\ ( out.op = "ingest" /\ out.status = 200 ) =>
           Cardinality({i \in 1..Len(out.events) :
                           out.events[i].call = "generate_embedding"})
             = out.body.chunk_count
    /\ \A slot \in Slots :
           reqs[slot].pc \in {"summary", "answer"} =>
               NoRetry(reqs[slot].events) /\ AllOk(reqs[slot].events)
    /\ last.op \in {"create_session", "query"} => NoRetry(last.events)

\* generate_summary failed after every chunk was embedded: the ingest was
\* answered with the error, the failed call being its last
C20_Witness ==
    /\ out.op = "ingest"
    /\ out.status = 400
    /\ Len(out.events) > 2
    /\ out.events[Len(out.events)] = GenCall("generate_summary", FALSE)

\* C21: constructing the services never raises: with no credential every
\* getter that constructs gets an object whose is_configured() is False,
\* and the first backend call through it fails with the configuration
\* error.
C21_ConstructionNeverCrashes ==
    \A c \in Callers :
        /\ calls[c].pc # "raised"
        /\ ( calls[c].pc \in {"done", "used"} /\ ~credential )
             => ~instances[calls[c].ret]._configured
        /\ ( calls[c].pc = "used" /\ ~credential )
             => calls[c].result = "ValueError: not configured"

\* C28: every call of get_rag_service that returns hands back the same
\* RAGService object, and only one is ever constructed.
C28_OneRagService ==
    /\ \A c \in Callers, d \in Callers :
           ( calls[c].pc \in {"done", "used"} /\ calls[d].pc \in {"done", "used"}
               /\ calls[c].getter = "get_rag_service"
               /\ calls[d].getter = "get_rag_service" )
             => calls[c].ret = calls[d].ret
    /\ Cardinality({i \in 1..Len(instances) : instances[i].kind = "RAGService"}) <= 1

\* the string is empty or made of blanks, newlines, tabs and returns only
Blank(s) == \A i \in 1..Len(s) : s[i] \in {" ", "\n", "\t", "\r"}

\* C22: chunk_text of an empty or whitespace-only text is the empty list,
\* and no chunk it returns for any text is empty or whitespace-only.
C22_NoBlankChunks ==
    last.op = "chunk_text" =>
        /\ Blank(last.text) => last.ret = <<>>
        /\ \A i \in 1..Len(last.ret) : ~Blank(last.ret[i])

\* a text of a blank and newlines gave no chunk
C22_Witness ==
    /\ last.op = "chunk_text"
    /\ last.text = <<" ", "\n", "\n">>
    /\ last.ret = <<>>

\* C23: every chunk chunk_text returns has at most RAG_CHUNK_SIZE
\* characters, also for a text without any separator.
C23_ChunksWithinSize ==
    last.op = "chunk_text" =>
        \A i \in 1..Len(last.ret) : Len(last.ret[i]) <= RAG_CHUNK_SIZE

\* a text of letters only, longer than a chunk, was cut into several chunks
C23_Witness ==
    /\ last.op = "chunk_text"
    /\ Len(last.text) > RAG_CHUNK_SIZE
    /\ \A i \in 1..Len(last.text) : last.text[i] = "a"
    /\ Len(last.ret) > 1
    /\ Len(last.ret[1]) = RAG_CHUNK_SIZE

\* the text has none of what the normalisation is said to remove
Normalized(text) ==
    /\ \A i \in 1..Len(text) : text[i] # "\t" /\ text[i] \notin NonPrintable
    /\ \A i \in 1..(Len(text) - 1) : ~(text[i] = " " /\ text[i + 1] = " ")
    /\ \A i \in 1..(Len(text) - 2) :
          ~(text[i] = "\n" /\ text[i + 1] = "\n" /\ text[i + 2] = "\n")
    /\ text # <<>> => text[1] \notin Whitespace /\ text[Len(text)] \notin Whitespace

\* C24: the text every extraction path returns is normalised: no run of
\* three or more newlines, no tab, no run of two or more spaces, no
\* non-printable character, no leading or trailing whitespace.
C24_ExtractedTextNormalized ==
    (last.op = "extracted" /\ last.ret.ok) => Normalized(last.ret.text)

\* the characters a decoding stands for
Characters(decoded) == [i \in 1..Len(decoded) |-> CharOf[decoded[i]]]

\* C25: extract_from_text_file returns the (cleaned) text of the first of
\* utf-8, latin-1, cp1252 that decodes the bytes, and fails exactly when
\* none of the three decodes them.
C25_FirstDecodingWins ==
    (last.op = "extracted" /\ last.call.path = "txt") =>
        LET b == last.call.file_content
            u == Utf8Decode(b)
            l == Latin1Decode(b)
            c == Cp1252Decode(b)
        IN  /\ last.ret.ok <=> (u # None \/ l # None \/ c # None)
            /\ u # None => last.ret.text = clean_text(Characters(u[1]))
            /\ (u = None /\ l # None) => last.ret.text = clean_text(Characters(l[1]))
            /\ (u = None /\ l = None /\ c # None) =>
                  last.ret.text = clean_text(Characters(c[1]))

\* bytes that are valid UTF-8 and read differently as latin-1 have been read
C25_Witness ==
    /\ last.op = "extracted" /\ last.call.path = "txt"
    /\ Utf8Decode(last.call.file_content) # None
    /\ \E i \in 1..Len(last.call.file_content) : last.call.file_content[i] >= 128
    /\ last.ret.ok

\* C29: the word_count an ingest returns for a session is the word_count
\* describe returns for it (the one kept in the metadata of the session).
C29_WordCountsAgree ==
    (out.op = "ingest" /\ out.status = 200 /\ session_exists(out.body.session_id)) =>
        out.body.word_count = get_session_info(out.body.session_id)[1].word_count

\* the session is the one an ingest that has not answered yet created
InFlight(session_id) ==
    \E r \in Slots : reqs[r].pc = "summary" /\ reqs[r].sid = session_id

\* C26: once a failed ingest has answered, nothing of it remains: every
\* registered session was returned by a successful ingest (or its ingest is
\* still running), and every collection is the collection of a registered
\* session.
C26_FailedIngestLeavesNothing ==
    /\ \A s \in DOMAIN sessions : s \in known \/ InFlight(s)
    /\ \A c \in DOMAIN collections :
          \E s \in DOMAIN sessions : sessions[s].collection_name = c

\* C27: an ingest whose session is deleted while it awaits the summary
\* still completes: no ingest answers with an internal error.
C27_DeletedDuringIngestCompletes ==
    out.op = "ingest" => out.status # 500

\* C30: a message is saved and broadcast only for a sender who, when the
\* message was sent, was the teacher of the classroom or enrolled in it.
C30_OnlyMembersSend ==
    /\ \A i \in 1..Len(messages) : messages[i].member
    /\ \A i \in 1..Len(delivered) : delivered[i].message.member

=============================================================================
